---- MODULE Spec2Model ----
(***************************************************************************)
(* Model of the vehicle-routing core of Sistema_Enrutamiento_Vehiculos:    *)
(* the route evaluator, the cost function, the greedy constructor and the  *)
(* simulated-annealing optimiser of src/src/algoritmo.py, with the order   *)
(* validation of src/src/excel_reader.py.                                  *)
(*                                                                         *)
(* Units.  Destinations lie on one meridian and are given as the arc       *)
(* (in km) from a reference point, so the great-circle distance of two     *)
(* points is the absolute difference of their arcs.  Clock values are      *)
(* minutes of the day.  Costs are exact rationals in the source (floats);  *)
(* here every cost is multiplied by CostUnit so that it is an integer.     *)
(* Python strings that are compared or parsed (the HH:MM windows) are      *)
(* sequences of code points.                                               *)
(***************************************************************************)
EXTENDS Integers, Sequences, FiniteSets, TLC

VARIABLES
    vehiculos,          \* input: list of Vehiculo
    pedidos,            \* input: list of Pedido
    pc,                 \* "inicio" | "greedy" | "sa" | "done" | "raised"
    pedidos_ordenados,  \* solve_vrp_greedy: the sorted list
    k,                  \* solve_vrp_greedy: index of the next order of the loop
    rutas,              \* greedy `rutas`, then SA `current_routes` (same object)
    no_asignados,       \* greedy `pedidos_no_asignados`, then SA `no_asignados`
    evaluados,          \* history: ids whose insertion loop (line 218) was entered
    greedy_cost,        \* history: global cost of the greedy solution
    current_cost,
    best_routes,
    best_no_asignados,
    best_cost,
    min_cost,           \* history: least value current_cost ever had
    iter,               \* SA loop counter i; temp = initial_temp * cooling_rate^iter
    excepcion,          \* the exception raised, "" if none
    eval_out,           \* SpecEval: result of the last evaluator / cost call
    otra,               \* SpecDet: the second run of solve_vrp_greedy
    greedy_sol,         \* the greedy solution the annealing started from
    compartido,         \* best_routes / best_no_asignados are the very objects
                        \* current_routes / no_asignados (not copies of them)
    enfriamientos,      \* times temp was multiplied by cooling_rate (line 414)
    respuesta,          \* main.enrutar: the "vehiculos" list of the response
    registro,           \* whether `ultima` is recorded in this behaviour
    ultima              \* history: what the last iteration of the loop did

vars == <<vehiculos, pedidos, pc, pedidos_ordenados, k, rutas, no_asignados,
          evaluados, greedy_cost, current_cost, best_routes, best_no_asignados,
          best_cost, min_cost, iter, excepcion, eval_out, otra, greedy_sol,
          compartido, enfriamientos, respuesta, registro, ultima>>

\* The variables only solve_vrp_simulated_annealing and enrutar write.
resto == <<greedy_sol, compartido, enfriamientos, respuesta, registro, ultima>>

-----------------------------------------------------------------------------
(* Program constants (algoritmo.py lines 9-20).                            *)

VELOCIDAD_PROMEDIO_KMH == 30
TIEMPO_SERVICIO_MINUTOS == 10
\* "08:00"
HORA_INICIO == <<48, 56, 58, 48, 48>>
MAX_JORNADA_HORAS == 8
W_UNASSIGNED == 600
W_CAP == 20
W_DIST == 1
\* W_WAIT = 0.5 = W_WAIT_NUM / W_WAIT_DEN
W_WAIT_NUM == 1
W_WAIT_DEN == 2

(* Bounds of the model.                                                    *)
MaxPedidos == 3
MaxIter == 2
MaxEval == 2

-----------------------------------------------------------------------------
(* Strings of the HH:MM windows, as code points ("0" = 48, ":" = 58).      *)

Colon == 58

\* "08:00", "8:00", "08:10", "08:30", "10:00", "12:00", "15:50", "15:51",
\* "16:00", "17:00", "18:00"
S_0800 == <<48, 56, 58, 48, 48>>
S_800 == <<56, 58, 48, 48>>
S_0810 == <<48, 56, 58, 49, 48>>
S_0830 == <<48, 56, 58, 51, 48>>
S_1000 == <<49, 48, 58, 48, 48>>
S_1200 == <<49, 50, 58, 48, 48>>
S_1550 == <<49, 53, 58, 53, 48>>
S_1551 == <<49, 53, 58, 53, 49>>
S_1600 == <<49, 54, 58, 48, 48>>
S_1700 == <<49, 55, 58, 48, 48>>
S_1800 == <<49, 56, 58, 48, 48>>

IsDigit(c) == c >= 48 /\ c <= 57

\* Position of the first ":" of s, 0 if none.
ColonPos(s) ==
    IF \E i \in 1..Len(s) : s[i] = Colon
    THEN CHOOSE i \in 1..Len(s) : s[i] = Colon /\ \A j \in 1..(i-1) : s[j] # Colon
    ELSE 0

\* int() of a string of decimal digits.
RECURSIVE StrToInt(_)
StrToInt(s) ==
    IF Len(s) = 0 THEN 0
    ELSE 10 * StrToInt(SubSeq(s, 1, Len(s) - 1)) + (s[Len(s)] - 48)

\* datetime.strptime(s, "%H:%M"), as minutes after midnight.
ParseHM(s) ==
    LET c == ColonPos(s)
    IN  60 * StrToInt(SubSeq(s, 1, c - 1)) + StrToInt(SubSeq(s, c + 1, Len(s)))

\* re.compile(r'^([0-1]?[0-9]|2[0-3]):[0-5][0-9]$').match(s)
time_pattern(s) ==
    LET c == ColonPos(s)
        h == SubSeq(s, 1, c - 1)
        m == SubSeq(s, c + 1, Len(s))
    IN  /\ c \in {2, 3}
        /\ \A i \in 1..Len(h) : IsDigit(h[i])
        /\ \/ Len(h) = 1
           \/ Len(h) = 2 /\ h[1] \in {48, 49}
           \/ Len(h) = 2 /\ h[1] = 50 /\ h[2] \in 48..51
        /\ Len(m) = 2
        /\ m[1] \in 48..53
        /\ IsDigit(m[2])

\* Python's s < t on strings: lexicographic by code point, a proper prefix first.
RECURSIVE StrLess(_, _)
StrLess(s, t) ==
    IF Len(t) = 0 THEN FALSE
    ELSE IF Len(s) = 0 THEN TRUE
    ELSE IF s[1] # t[1] THEN s[1] < t[1]
    ELSE StrLess(Tail(s), Tail(t))

-----------------------------------------------------------------------------
(* Data: models.py.                                                        *)

Vehiculo(id, cap, loc) == [id |-> id, capacidad_kg |-> cap, origen |-> loc]

Pedido(id, loc, peso, vi, vf, prio) ==
    [id |-> id, destino |-> loc, peso_kg |-> peso,
     ventana_inicio |-> vi, ventana_fin |-> vf, prioridad |-> prio]

\* The fleets the inputs are drawn from.
V1 == Vehiculo("V1", 1, 0)
V2 == Vehiculo("V2", 2, 18)
Flotas == { <<>>, <<V1>>, <<V1, V2>> }

\* A second fleet: the large vehicle near the orders, the small one far away.
VA == Vehiculo("VA", 2, 0)
VB == Vehiculo("VB", 1, 19)
Flotas2 == { <<VA, VB>> }

\* The orders the inputs are drawn from.
Catalogo ==
    { Pedido("A", 1, 1, S_0800, S_1800, 5),
      Pedido("B", 1, 1, S_800, S_1800, 4),
      Pedido("C", 3, 1, S_1000, S_1200, 4),
      Pedido("X", 0, 1, S_0800, S_0810, 1),
      Pedido("P", 2, 3, S_0800, S_1800, 5),
      Pedido("L", 1, 1, S_1600, S_1700, 2) }

\* leer_pedidos: the checks a row passes before it becomes a Pedido.
Aceptado(p) ==
    /\ p.peso_kg > 0
    /\ p.prioridad >= 1 /\ p.prioridad <= 5
    /\ time_pattern(p.ventana_inicio)
    /\ time_pattern(p.ventana_fin)
    /\ ParseHM(p.ventana_inicio) <= ParseHM(p.ventana_fin)

\* Lists without repetition of at most n elements of S.
RECURSIVE ListasSinRepetir(_, _)
ListasSinRepetir(S, n) ==
    IF n = 0 THEN { <<>> }
    ELSE LET menores == ListasSinRepetir(S, n - 1)
             largas == { m \in menores : Len(m) = n - 1 }
         IN  menores \cup
             UNION { { Append(l, x) : x \in S \ { l[i] : i \in 1..Len(l) } } :
                     l \in largas }

Entradas == ListasSinRepetir({ p \in Catalogo : Aceptado(p) }, MaxPedidos)

\* The orders of the inputs for the second fleet: D must be the first stop of
\* VA and cannot be reached in time from VB, nor can Z.
Catalogo2 ==
    { Pedido("D", 3, 1, S_0800, S_0810, 5),
      Pedido("E", 1, 1, S_0800, S_1800, 4),
      Pedido("F", 2, 1, S_0800, S_1800, 3),
      Pedido("Z", 2, 1, S_0800, S_0830, 1) }

Entradas2 == ListasSinRepetir({ p \in Catalogo2 : Aceptado(p) }, MaxPedidos)

\* Orders whose window opens near the end of the working day: M so that the
\* service ends at 8 h exactly, N one minute later, L later still.
CatalogoJornada ==
    { Pedido("E", 1, 1, S_0800, S_1800, 4),
      Pedido("L", 1, 1, S_1600, S_1700, 2),
      Pedido("M", 1, 1, S_1550, S_1700, 2),
      Pedido("N", 1, 1, S_1551, S_1700, 3) }

EntradasJornada ==
    ListasSinRepetir({ p \in CatalogoJornada : Aceptado(p) }, MaxPedidos)

-----------------------------------------------------------------------------
(* Costs.  A cost is a record: fin = FALSE is float('inf'); otherwise v is *)
(* the cost times CostUnit.                                                *)

RECURSIVE Producto(_)
Producto(S) ==
    IF S = {} THEN 1
    ELSE LET x == CHOOSE y \in S : TRUE IN x * Producto(S \ {x})

\* A common multiple of the squared capacities of all vehicles.
CapUnit == Producto({ v.capacidad_kg * v.capacidad_kg : v \in {V1, V2, VA, VB} })
CostUnit == 60 * W_WAIT_DEN * CapUnit

Inf == [fin |-> FALSE, v |-> 0]
Fin(x) == [fin |-> TRUE, v |-> x]

\* a < b on floats with +inf.
CostLess(a, b) ==
    IF ~a.fin THEN FALSE
    ELSE IF ~b.fin THEN TRUE
    ELSE a.v < b.v

CostAdd(a, b) == IF a.fin /\ b.fin THEN Fin(a.v + b.v) ELSE Inf

-----------------------------------------------------------------------------
(* haversine_distance, for two points of one meridian given by their arcs. *)

haversine_distance(a, b) == IF a >= b THEN a - b ELSE b - a

RECURSIVE SumaPesos(_)
SumaPesos(route) ==
    IF Len(route) = 0 THEN 0
    ELSE route[1].peso_kg + SumaPesos(Tail(route))

\* Mutant: the minutes of waiting are left out of the length of the day.
RECURSIVE RecorrerRutaJornadaSinEspera(_, _, _, _, _)
RecorrerRutaJornadaSinEspera(route, i, current_time, lat_curr, metrics) ==
    IF i > Len(route)
    THEN LET total_min == current_time - ParseHM(HORA_INICIO) - metrics.wait_minutes
         IN  IF total_min > MAX_JORNADA_HORAS * 60
             THEN [metrics EXCEPT
                     !.overtime_minutes = total_min - MAX_JORNADA_HORAS * 60,
                     !.is_feasible = FALSE,
                     !.rejection_reason = <<"Excede jornada maxima", total_min>>]
             ELSE metrics
    ELSE LET pedido == route[i]
             dist == haversine_distance(lat_curr, pedido.destino)
             llegada == current_time + (dist * 60) \div VELOCIDAD_PROMEDIO_KMH
             t_inicio == ParseHM(pedido.ventana_inicio)
             t_fin == ParseHM(pedido.ventana_fin)
             espera == IF llegada < t_inicio THEN t_inicio - llegada ELSE 0
             servicio == IF llegada < t_inicio THEN t_inicio ELSE llegada
             m1 == [metrics EXCEPT !.distance_km = @ + dist,
                                   !.wait_minutes = @ + espera]
         IN  IF servicio > t_fin
             THEN [m1 EXCEPT !.lateness_count = @ + 1,
                             !.is_feasible = FALSE,
                             !.rejection_reason = <<"Llegada tardia", pedido.id>>]
             ELSE RecorrerRutaJornadaSinEspera(route, i + 1, servicio + TIEMPO_SERVICIO_MINUTOS,
                               pedido.destino, m1)

\* Mutant: an early arrival is counted as a wait but the clock is not moved to
\* the opening of the window.
RECURSIVE RecorrerRutaSinEspera(_, _, _, _, _)
RecorrerRutaSinEspera(route, i, current_time, lat_curr, metrics) ==
    IF i > Len(route)
    THEN LET total_min == current_time - ParseHM(HORA_INICIO)
         IN  IF total_min > MAX_JORNADA_HORAS * 60
             THEN [metrics EXCEPT
                     !.overtime_minutes = total_min - MAX_JORNADA_HORAS * 60,
                     !.is_feasible = FALSE,
                     !.rejection_reason = <<"Excede jornada maxima", total_min>>]
             ELSE metrics
    ELSE LET pedido == route[i]
             dist == haversine_distance(lat_curr, pedido.destino)
             llegada == current_time + (dist * 60) \div VELOCIDAD_PROMEDIO_KMH
             t_inicio == ParseHM(pedido.ventana_inicio)
             t_fin == ParseHM(pedido.ventana_fin)
             espera == IF llegada < t_inicio THEN t_inicio - llegada ELSE 0
             m1 == [metrics EXCEPT !.distance_km = @ + dist,
                                   !.wait_minutes = @ + espera]
         IN  IF llegada > t_fin
             THEN [m1 EXCEPT !.lateness_count = @ + 1,
                             !.is_feasible = FALSE,
                             !.rejection_reason = <<"Llegada tardia", pedido.id>>]
             ELSE RecorrerRutaSinEspera(route, i + 1,
                                        llegada + TIEMPO_SERVICIO_MINUTOS,
                                        pedido.destino, m1)

\* The loop of calculate_route_metrics (lines 83-111) from stop i on, then the
\* workday check (lines 113-121).  overtime_minutes is overtime_hours * 60.
RECURSIVE RecorrerRuta(_, _, _, _, _)
RecorrerRuta(route, i, current_time, lat_curr, metrics) ==
    IF i > Len(route)
    THEN LET total_min == current_time - ParseHM(HORA_INICIO)
         IN  IF total_min > MAX_JORNADA_HORAS * 60
             THEN [metrics EXCEPT
                     !.overtime_minutes = total_min - MAX_JORNADA_HORAS * 60,
                     !.is_feasible = FALSE,
                     !.rejection_reason = <<"Excede jornada maxima", total_min>>]
             ELSE metrics
    ELSE LET pedido == route[i]
             dist == haversine_distance(lat_curr, pedido.destino)
             llegada == current_time + (dist * 60) \div VELOCIDAD_PROMEDIO_KMH
             t_inicio == ParseHM(pedido.ventana_inicio)
             t_fin == ParseHM(pedido.ventana_fin)
             espera == IF llegada < t_inicio THEN t_inicio - llegada ELSE 0
             servicio == IF llegada < t_inicio THEN t_inicio ELSE llegada
             m1 == [metrics EXCEPT !.distance_km = @ + dist,
                                   !.wait_minutes = @ + espera]
         IN  IF servicio > t_fin
             THEN [m1 EXCEPT !.lateness_count = @ + 1,
                             !.is_feasible = FALSE,
                             !.rejection_reason = <<"Llegada tardia", pedido.id>>]
             ELSE RecorrerRuta(route, i + 1, servicio + TIEMPO_SERVICIO_MINUTOS,
                               pedido.destino, m1)

\* Mutant: the capacity pre-check of lines 78-81 left out.
MetricsSinCapacidad(vehicle, route) ==
    RecorrerRuta(route, 1, ParseHM(HORA_INICIO), vehicle.origen,
        [distance_km |-> 0, wait_minutes |-> 0, load_kg |-> SumaPesos(route),
         overtime_minutes |-> 0, lateness_count |-> 0,
         is_feasible |-> TRUE, rejection_reason |-> <<>>])

calculate_route_metrics(vehicle, route) ==
    LET total_weight == SumaPesos(route)
        metrics == [distance_km |-> 0, wait_minutes |-> 0, load_kg |-> total_weight,
                    overtime_minutes |-> 0, lateness_count |-> 0,
                    is_feasible |-> TRUE, rejection_reason |-> <<>>]
    IN  IF total_weight > vehicle.capacidad_kg
        THEN [metrics EXCEPT
                !.is_feasible = FALSE,
                !.rejection_reason =
                    <<"Capacidad excedida", total_weight, vehicle.capacidad_kg>>]
        ELSE RecorrerRuta(route, 1, ParseHM(HORA_INICIO), vehicle.origen, metrics)

\* The cost of a feasible route with metrics m, times CostUnit (lines 143-150
\* and 178-184).
RouteCostOf(vehicle, m) ==
    LET cap2 == vehicle.capacidad_kg * vehicle.capacidad_kg
    IN  W_DIST * CostUnit * m.distance_km
        + W_WAIT_NUM * CapUnit * m.wait_minutes
        + IF vehicle.capacidad_kg > 0
          THEN W_CAP * (CostUnit \div cap2) * m.load_kg * m.load_kg
          ELSE 0

calculate_route_cost(vehicle, route) ==
    LET m == calculate_route_metrics(vehicle, route)
    IN  IF ~m.is_feasible THEN Inf ELSE Fin(RouteCostOf(vehicle, m))

\* The first loop of calculate_global_cost over routes.items(), in the order of
\* the vehicle list (the dict is built in that order), from vehicle i on.
RECURSIVE CostoRutas(_, _, _, _)
CostoRutas(vs, routes, i, total_cost) ==
    IF i > Len(vs) THEN Fin(total_cost)
    ELSE LET veh == vs[i]
             m == calculate_route_metrics(veh, routes[veh.id])
         IN  IF ~m.is_feasible THEN Inf
             ELSE CostoRutas(vs, routes, i + 1, total_cost + RouteCostOf(veh, m))

\* Mutant: the priority is not squared.
RECURSIVE CostoNoAsignadosLineal(_, _)
CostoNoAsignadosLineal(unassigned, total_cost) ==
    IF Len(unassigned) = 0 THEN total_cost
    ELSE LET p == unassigned[1].pedido
         IN  CostoNoAsignadosLineal(Tail(unassigned),
                 total_cost + W_UNASSIGNED * CostUnit * p.prioridad)

\* Mutant: the penalty of an unassigned order without the weight W_UNASSIGNED.
RECURSIVE CostoNoAsignadosSinPeso(_, _)
CostoNoAsignadosSinPeso(unassigned, total_cost) ==
    IF Len(unassigned) = 0 THEN total_cost
    ELSE LET p == unassigned[1].pedido
         IN  CostoNoAsignadosSinPeso(Tail(unassigned),
                 total_cost + CostUnit * p.prioridad * p.prioridad)

\* The second loop of calculate_global_cost, over the unassigned items.
RECURSIVE CostoNoAsignados(_, _)
CostoNoAsignados(unassigned, total_cost) ==
    IF Len(unassigned) = 0 THEN total_cost
    ELSE LET p == unassigned[1].pedido
         IN  CostoNoAsignados(Tail(unassigned),
                 total_cost + W_UNASSIGNED * CostUnit * p.prioridad * p.prioridad)

calculate_global_cost(vs, routes, unassigned) ==
    LET r == CostoRutas(vs, routes, 1, 0)
    IN  IF ~r.fin THEN Inf ELSE Fin(CostoNoAsignados(unassigned, r.v))

-----------------------------------------------------------------------------
(* solve_vrp_greedy.                                                       *)

\* a sorts before b under key (-x.prioridad, x.ventana_inicio): a tuple of an int
\* and a str, the str compared as Python compares strings.
KeyLess(a, b) ==
    \/ -a.prioridad < -b.prioridad
    \/ a.prioridad = b.prioridad /\ StrLess(a.ventana_inicio, b.ventana_inicio)

\* x put into the sorted list l behind every element that does not sort after it.
RECURSIVE InsertSorted(_, _)
InsertSorted(l, x) ==
    IF Len(l) = 0 THEN <<x>>
    ELSE IF KeyLess(x, l[1]) THEN <<x>> \o l
    ELSE <<l[1]>> \o InsertSorted(Tail(l), x)

\* sorted(pedidos, key=...): stable.
RECURSIVE sorted(_)
sorted(l) ==
    IF Len(l) = 0 THEN <<>>
    ELSE InsertSorted(sorted(SubSeq(l, 1, Len(l) - 1)), l[Len(l)])

\* route[:i] + [pedido] + route[i:], i counted from 0.
InsertAt(route, i, pedido) ==
    SubSeq(route, 1, i) \o <<pedido>> \o SubSeq(route, i + 1, Len(route))

\* route with the element at 0-based index i popped.
RemoveAt(route, i) == SubSeq(route, 1, i) \o SubSeq(route, i + 2, Len(route))

\* max(v.capacidad_kg for v in vehiculos), for a non-empty list.
MaxCap(vs) ==
    CHOOSE c \in { vs[i].capacidad_kg : i \in 1..Len(vs) } :
        \A j \in 1..Len(vs) : vs[j].capacidad_kg <= c

\* f"{v.id}: {m['rejection_reason']}"
RazonVehiculo(vid, reason) == <<reason[1], vid>> \o Tail(reason)

\* Mutant: a position of equal cost replaces the one found before.
RECURSIVE ProbarPosicionesUltimo(_, _, _, _, _, _)
ProbarPosicionesUltimo(v, current_route, base_cost, pedido, i, acc) ==
    IF i > Len(current_route) THEN acc
    ELSE LET temp_route == InsertAt(current_route, i, pedido)
             new_cost == calculate_route_cost(v, temp_route)
             acc2 ==
                 IF new_cost.fin
                 THEN LET delta == Fin(new_cost.v - base_cost)
                      IN  IF ~CostLess(acc.best_cost_increase, delta)
                          THEN [acc EXCEPT !.best_cost_increase = delta,
                                           !.best_insertion = <<v.id, i>>,
                                           !.candidate_found = TRUE]
                          ELSE acc
                 ELSE LET m == calculate_route_metrics(v, temp_route)
                      IN  [acc EXCEPT !.rejection_reasons =
                              Append(@, RazonVehiculo(v.id, m.rejection_reason))]
         IN  ProbarPosicionesUltimo(v, current_route, base_cost, pedido, i + 1, acc2)

\* Lines 227-244 for vehicle v: positions i..len(current_route), with the
\* accumulator acc = [best_cost_increase, best_insertion, candidate_found,
\* rejection_reasons].
RECURSIVE ProbarPosiciones(_, _, _, _, _, _)
ProbarPosiciones(v, current_route, base_cost, pedido, i, acc) ==
    IF i > Len(current_route) THEN acc
    ELSE LET temp_route == InsertAt(current_route, i, pedido)
             new_cost == calculate_route_cost(v, temp_route)
             acc2 ==
                 IF new_cost.fin
                 THEN LET delta == Fin(new_cost.v - base_cost)
                      IN  IF CostLess(delta, acc.best_cost_increase)
                          THEN [acc EXCEPT !.best_cost_increase = delta,
                                           !.best_insertion = <<v.id, i>>,
                                           !.candidate_found = TRUE]
                          ELSE acc
                 ELSE LET m == calculate_route_metrics(v, temp_route)
                      IN  [acc EXCEPT !.rejection_reasons =
                              Append(@, RazonVehiculo(v.id, m.rejection_reason))]
         IN  ProbarPosiciones(v, current_route, base_cost, pedido, i + 1, acc2)

\* Mutant: the loop over the vehicles stops after the first one.
ProbarSoloPrimero(vs, rs, pedido, vi, acc) ==
    LET v == vs[1]
        current_route == rs[v.id]
        c == calculate_route_cost(v, current_route)
        base_cost == IF ~c.fin THEN 0 ELSE c.v
    IN  ProbarPosiciones(v, current_route, base_cost, pedido, 0, acc)

\* Lines 218-244: the vehicles from index vi on.
RECURSIVE ProbarVehiculos(_, _, _, _, _)
ProbarVehiculos(vs, rs, pedido, vi, acc) ==
    IF vi > Len(vs) THEN acc
    ELSE LET v == vs[vi]
             current_route == rs[v.id]
             c == calculate_route_cost(v, current_route)
             base_cost == IF ~c.fin THEN 0 ELSE c.v
         IN  ProbarVehiculos(vs, rs, pedido, vi + 1,
                 ProbarPosiciones(v, current_route, base_cost, pedido, 0, acc))

BuscarInsercion(vs, rs, pedido) ==
    ProbarVehiculos(vs, rs, pedido, 1,
        [best_cost_increase |-> Inf, best_insertion |-> <<>>,
         candidate_found |-> FALSE, rejection_reasons |-> <<>>])

\* The lists that hold every element of the finite set S once.
RECURSIVE Ordenes(_)
Ordenes(S) ==
    IF S = {} THEN { <<>> }
    ELSE UNION { { <<x>> \o l : l \in Ordenes(S \ {x}) } : x \in S }

\* Mutant: the reasons are joined as collected, one per position tried.
ListaSinDedup(reasons) == { reasons }

\* list(set(rejection_reasons)): the distinct reasons, in the order in which the
\* set happens to iterate (it depends on the string hashes of the process).
ListaDeSet(reasons) == Ordenes({ reasons[i] : i \in 1..Len(reasons) })

\* Mutant: the check of the fleet maximum (lines 207-213) left out.
PasoGreedySinPesoMaximo(vs, rs, un, pedido) ==
    LET acc == BuscarInsercion(vs, rs, pedido)
    IN  IF acc.candidate_found /\ acc.best_insertion # <<>>
        THEN { [rutas |-> [rs EXCEPT ![acc.best_insertion[1]] =
                              InsertAt(@, acc.best_insertion[2], pedido)],
                no_asignados |-> un,
                evaluado |-> TRUE] }
        ELSE { [rutas |-> rs,
                no_asignados |-> Append(un,
                    [pedido |-> pedido, razon |-> <<"join">> \o l]),
                evaluado |-> TRUE] :
               l \in ListaDeSet(acc.rejection_reasons) }

\* One pass of the loop of line 201 for `pedido`, for a non-empty fleet: the
\* possible outcomes [rutas, no_asignados, evaluado].
PasoGreedy(vs, rs, un, pedido) ==
    LET max_cap == MaxCap(vs)
    IN  IF pedido.peso_kg > max_cap
        THEN { [rutas |-> rs,
                no_asignados |-> Append(un,
                    [pedido |-> pedido,
                     razon |-> <<"Peso excesivo", pedido.peso_kg, max_cap>>]),
                evaluado |-> FALSE] }
        ELSE LET acc == BuscarInsercion(vs, rs, pedido)
             IN  IF acc.candidate_found /\ acc.best_insertion # <<>>
                 THEN LET vid == acc.best_insertion[1]
                          idx == acc.best_insertion[2]
                      IN  { [rutas |-> [rs EXCEPT ![vid] = InsertAt(@, idx, pedido)],
                             no_asignados |-> un,
                             evaluado |-> TRUE] }
                 ELSE IF acc.rejection_reasons # <<>>
                 THEN { [rutas |-> rs,
                         no_asignados |-> Append(un,
                             [pedido |-> pedido, razon |-> <<"join">> \o l]),
                         evaluado |-> TRUE] :
                        l \in ListaDeSet(acc.rejection_reasons) }
                 ELSE { [rutas |-> rs,
                         no_asignados |-> Append(un,
                             [pedido |-> pedido,
                              razon |-> <<"No factible en ninguna ruta">>]),
                         evaluado |-> TRUE] }

RutasVacias(vs) == [id \in { vs[i].id : i \in 1..Len(vs) } |-> <<>>]

\* The state in which the solver is called with a fleet of `flotas` and a list
\* of orders of `entradas`.
Llamada(flotas, entradas, reg) ==
    /\ vehiculos \in flotas
    /\ pedidos \in entradas
    /\ registro = reg
    /\ greedy_sol = <<>>
    /\ compartido = FALSE
    /\ enfriamientos = 0
    /\ respuesta = <<>>
    /\ ultima = <<>>
    /\ pc = "inicio"
    /\ pedidos_ordenados = <<>>
    /\ k = 1
    /\ rutas = <<>>
    /\ no_asignados = <<>>
    /\ evaluados = {}
    /\ greedy_cost = Inf
    /\ current_cost = Inf
    /\ best_routes = <<>>
    /\ best_no_asignados = <<>>
    /\ best_cost = Inf
    /\ min_cost = Inf
    /\ iter = 0
    /\ excepcion = ""
    /\ eval_out = <<>>
    /\ otra = <<>>

Init == Llamada(Flotas, Entradas, FALSE)

\* Lines 193-199 of solve_vrp_greedy: the sort and the empty routes.
GreedyInicio ==
    /\ pc = "inicio"
    /\ pedidos_ordenados' = sorted(pedidos)
    /\ rutas' = RutasVacias(vehiculos)
    /\ pc' = "greedy"
    /\ UNCHANGED <<vehiculos, pedidos, k, no_asignados, evaluados, greedy_cost,
                   current_cost, best_routes, best_no_asignados, best_cost, min_cost,
                   iter, excepcion, eval_out, otra, resto>>

\* One pass of the loop of line 201.  max() of an empty fleet raises ValueError.
GreedyStep ==
    /\ pc = "greedy"
    /\ k <= Len(pedidos_ordenados)
    /\ IF Len(vehiculos) = 0
       THEN /\ pc' = "raised"
            /\ excepcion' = "ValueError"
            /\ UNCHANGED <<k, rutas, no_asignados, evaluados>>
       ELSE /\ \E out \in PasoGreedy(vehiculos, rutas, no_asignados,
                                     pedidos_ordenados[k]) :
                 /\ rutas' = out.rutas
                 /\ no_asignados' = out.no_asignados
                 /\ evaluados' = IF out.evaluado
                                 THEN evaluados \cup {pedidos_ordenados[k].id}
                                 ELSE evaluados
            /\ k' = k + 1
            /\ UNCHANGED <<pc, excepcion>>
    /\ UNCHANGED <<vehiculos, pedidos, pedidos_ordenados, greedy_cost, current_cost,
                   best_routes, best_no_asignados, best_cost, min_cost, iter,
                   eval_out, otra, resto>>

-----------------------------------------------------------------------------
(* solve_vrp_simulated_annealing.                                          *)

\* copy.deepcopy of the routes and of the unassigned list.  mismo tells whether
\* the result is the very object copied (FALSE: a new object that shares
\* nothing with it).
\* Mutant: the candidate is `current` itself (lines 291-292 without deepcopy).
CopiarEstadoSinCopia(rs, un) == [routes |-> rs, un |-> un, mismo |-> TRUE]

\* Lines 291-292: new_routes, new_no_asignados.
CopiarEstado(rs, un) == [routes |-> rs, un |-> un, mismo |-> FALSE]

\* Mutant: best_routes = current_routes, without deepcopy.
CopiarMejorSinCopia(rs, un) == [routes |-> rs, un |-> un, mismo |-> TRUE]

\* Lines 286-287 and 409-410: best_routes, best_no_asignados.
CopiarMejor(rs, un) == [routes |-> rs, un |-> un, mismo |-> FALSE]

\* Lines 275-287: the greedy solution becomes `current`, and `best` a deep copy.
SAInit ==
    /\ pc = "greedy"
    /\ k > Len(pedidos_ordenados)
    /\ LET c == calculate_global_cost(vehiculos, rutas, no_asignados)
       IN  /\ current_cost' = c
           /\ best_cost' = c
           /\ greedy_cost' = c
           /\ min_cost' = c
    /\ greedy_sol' = [rutas |-> rutas, no_asignados |-> no_asignados]
    /\ LET b == CopiarMejor(rutas, no_asignados)
       IN  /\ best_routes' = b.routes
           /\ best_no_asignados' = b.un
           /\ compartido' = b.mismo
    /\ pc' = "sa"
    /\ UNCHANGED <<vehiculos, pedidos, pedidos_ordenados, k, rutas, no_asignados,
                   evaluados, iter, excepcion, eval_out, otra, enfriamientos,
                   respuesta, registro, ultima>>

\* Lines 296-299: the list random.choice draws the move from.
Opciones(new_no_asignados) ==
    <<"swap_inter", "move_inter", "swap_intra">>
    \o (IF new_no_asignados # <<>>
        THEN <<"insert_unassigned", "insert_unassigned">>
        ELSE <<>>)

\* move_type = random.choice(options) can be `move`.
PuedeSalir(move) ==
    \E j \in 1..Len(Opciones(no_asignados)) : Opciones(no_asignados)[j] = move

SinMover(rs, un) == [moved |-> FALSE, routes |-> rs, un |-> un]

\* Mutant: `cost <= min_local_cost` at line 334, the last of the cheapest positions.
RECURSIVE MejorPosicionUltima(_, _, _, _, _)
MejorPosicionUltima(veh_target, r_target, p_un, pos, acc) ==
    IF pos > Len(r_target) THEN acc
    ELSE LET temp_r == InsertAt(r_target, pos, p_un)
             cost == calculate_route_cost(veh_target, temp_r)
             acc2 == IF cost.fin /\ ~CostLess(acc.min_local_cost, cost)
                     THEN [best_pos |-> pos, min_local_cost |-> cost]
                     ELSE acc
         IN  MejorPosicionUltima(veh_target, r_target, p_un, pos + 1, acc2)

\* Lines 326-337: the positions pos..len(r_target), with the accumulator
\* acc = [best_pos, min_local_cost].
RECURSIVE MejorPosicion(_, _, _, _, _)
MejorPosicion(veh_target, r_target, p_un, pos, acc) ==
    IF pos > Len(r_target) THEN acc
    ELSE LET temp_r == InsertAt(r_target, pos, p_un)
             cost == calculate_route_cost(veh_target, temp_r)
             acc2 == IF cost.fin /\ CostLess(cost, acc.min_local_cost)
                     THEN [best_pos |-> pos, min_local_cost |-> cost]
                     ELSE acc
         IN  MejorPosicion(veh_target, r_target, p_un, pos + 1, acc2)

\* Lines 316-343, for the draws idx_un (0-based) and v_target.
MoverInsertUnassigned(rs, un, idx_un, veh_target) ==
    LET p_un == un[idx_un + 1].pedido
        r_target == rs[veh_target.id]
        acc == MejorPosicion(veh_target, r_target, p_un, 0,
                             [best_pos |-> -1, min_local_cost |-> Inf])
    IN  IF acc.best_pos # -1
        THEN [moved |-> TRUE,
              routes |-> [rs EXCEPT ![veh_target.id] = InsertAt(@, acc.best_pos, p_un)],
              un |-> RemoveAt(un, idx_un)]
        ELSE SinMover(rs, un)

\* moved after a move that changed the routes of v1 and v2 (lines 361-365, 380-384).
AmbasFactibles(v1, route1, v2, route2) ==
    calculate_route_cost(v1, route1).fin /\ calculate_route_cost(v2, route2).fin

\* Lines 351-365, for the draws idx1, idx2 (0-based) in non-empty routes.
MoverSwapInter(rs, un, v1, v2, idx1, idx2) ==
    LET p1 == rs[v1.id][idx1 + 1]
        p2 == rs[v2.id][idx2 + 1]
        route1 == [rs[v1.id] EXCEPT ![idx1 + 1] = p2]
        route2 == [rs[v2.id] EXCEPT ![idx2 + 1] = p1]
    IN  [moved |-> AmbasFactibles(v1, route1, v2, route2),
         routes |-> [rs EXCEPT ![v1.id] = route1, ![v2.id] = route2],
         un |-> un]

\* Mutant: the order is inserted into route2 without being popped from route1.
MoverMoveInterSinPop(rs, un, v1, v2, idx1, insert_idx) ==
    LET p_move == rs[v1.id][idx1 + 1]
        route2 == InsertAt(rs[v2.id], insert_idx, p_move)
    IN  [moved |-> AmbasFactibles(v1, rs[v1.id], v2, route2),
         routes |-> [rs EXCEPT ![v2.id] = route2],
         un |-> un]

\* Mutant: the order popped from route1 is left unassigned instead of being
\* inserted into route2.
MoverMoveInterDesasigna(rs, un, v1, v2, idx1, insert_idx) ==
    LET p_move == rs[v1.id][idx1 + 1]
        route1 == RemoveAt(rs[v1.id], idx1)
    IN  [moved |-> AmbasFactibles(v1, route1, v2, rs[v2.id]),
         routes |-> [rs EXCEPT ![v1.id] = route1],
         un |-> Append(un, [pedido |-> p_move,
                            razon |-> <<"No factible en ninguna ruta">>])]

\* Lines 373-384, for the draws idx1 and insert_idx (0-based).
MoverMoveInter(rs, un, v1, v2, idx1, insert_idx) ==
    LET p_move == rs[v1.id][idx1 + 1]
        route1 == RemoveAt(rs[v1.id], idx1)
        route2 == InsertAt(rs[v2.id], insert_idx, p_move)
    IN  [moved |-> AmbasFactibles(v1, route1, v2, route2),
         routes |-> [rs EXCEPT ![v1.id] = route1, ![v2.id] = route2],
         un |-> un]

\* Lines 389-394, for the two distinct draws idx1, idx2 (0-based).
MoverSwapIntra(rs, un, v1, idx1, idx2) ==
    LET r == rs[v1.id]
        route1 == [r EXCEPT ![idx1 + 1] = r[idx2 + 1], ![idx2 + 1] = r[idx1 + 1]]
    IN  [moved |-> calculate_route_cost(v1, route1).fin,
         routes |-> [rs EXCEPT ![v1.id] = route1],
         un |-> un]

\* delta < 0 (line 403), delta = new_cost - cur_cost on floats with +inf.
DeltaNegativo(new_cost, cur_cost) == CostLess(new_cost, cur_cost)

\* Mutant: random.random() is called before delta is looked at.
HaySorteoSiempre(new_cost, cur_cost) == TRUE

\* Whether line 403 calls random.random(): `or` evaluates its right side only
\* when delta < 0 is false.
HaySorteo(new_cost, cur_cost) == ~DeltaNegativo(new_cost, cur_cost)

\* random.random() < math.exp(-delta / temp) (line 403), evaluated when delta is
\* not negative: exp(-inf) is 0, exp(0) is 1 and the draw is below 1; for any
\* other delta the outcome u is the draw's.
Metropolis(new_cost, cur_cost, u) ==
    IF ~new_cost.fin THEN FALSE
    ELSE IF new_cost = cur_cost THEN TRUE
    ELSE u

\* Mutant: the comparison of line 408 turned round.
EsMejorInvertido(cur_cost, b_cost) == CostLess(b_cost, cur_cost)

\* Mutant: every accepted candidate becomes `best`.
EsMejorSiempre(cur_cost, b_cost) == TRUE

\* current_cost < best_cost (line 408).
EsMejor(cur_cost, b_cost) == CostLess(cur_cost, b_cost)

CostMin(a, b) == IF CostLess(b, a) THEN b ELSE a

\* What `best` holds after the candidate cand, now mv, was worked on and `best`
\* was not assigned: mv when the candidate is the object `best` is.
MejorTrasMutar(cand, mv) ==
    /\ best_routes' = IF cand.mismo /\ compartido THEN mv.routes ELSE best_routes
    /\ best_no_asignados' = IF cand.mismo /\ compartido THEN mv.un
                            ELSE best_no_asignados
    /\ UNCHANGED best_cost

\* Mutant: line 406 left out.
CommitSinCosto(cand, mv, new_cost) ==
    /\ rutas' = mv.routes
    /\ no_asignados' = mv.un
    /\ UNCHANGED <<current_cost, min_cost>>
    /\ IF EsMejor(new_cost, best_cost)
       THEN LET b == CopiarMejor(mv.routes, mv.un)
            IN  /\ best_routes' = b.routes
                /\ best_no_asignados' = b.un
                /\ best_cost' = new_cost
                /\ compartido' = b.mismo
       ELSE /\ MejorTrasMutar(cand, mv)
            /\ compartido' = (cand.mismo /\ compartido)

\* Lines 404-411: the candidate becomes `current`, and `best` when it is better.
Commit(cand, mv, new_cost) ==
    /\ rutas' = mv.routes
    /\ no_asignados' = mv.un
    /\ current_cost' = new_cost
    /\ min_cost' = CostMin(min_cost, new_cost)
    /\ IF EsMejor(new_cost, best_cost)
       THEN LET b == CopiarMejor(mv.routes, mv.un)
            IN  /\ best_routes' = b.routes
                /\ best_no_asignados' = b.un
                /\ best_cost' = new_cost
                /\ compartido' = b.mismo
       ELSE /\ MejorTrasMutar(cand, mv)
            /\ compartido' = (cand.mismo /\ compartido)

\* The candidate is dropped: `current` and `best` keep their objects, which the
\* move changed if the candidate is one of them.
Descartar(cand, mv) ==
    /\ rutas' = IF cand.mismo THEN mv.routes ELSE rutas
    /\ no_asignados' = IF cand.mismo THEN mv.un ELSE no_asignados
    /\ MejorTrasMutar(cand, mv)
    /\ UNCHANGED <<current_cost, min_cost, compartido>>

\* History of the iteration: the move drawn, the list it was drawn from, the
\* kinds of the random draws in the order they were taken, the candidate as the
\* move left it and what became of it.
Registrar(info, mv, new_cost, sorteo, acepta) ==
    ultima' = IF registro
              THEN [move |-> info.move,
                    opciones |-> Opciones(no_asignados),
                    draws |-> info.draws \o
                              (IF sorteo THEN <<"metropolis">> ELSE <<>>),
                    args |-> info.args,
                    cand |-> [routes |-> mv.routes, un |-> mv.un],
                    moved |-> mv.moved,
                    accepted |-> acepta,
                    new_cost |-> new_cost]
              ELSE ultima

\* Lines 396-414 for the candidate cand, which the move turned into mv.
Evaluar(cand, mv, info) ==
    /\ IF mv.moved
       THEN \E new_cost \in { calculate_global_cost(vehiculos, mv.routes, mv.un) } :
            \E sorteo \in { HaySorteo(new_cost, current_cost) } :
            \E u \in (IF sorteo THEN BOOLEAN ELSE {FALSE}) :
            \E acepta \in { \/ DeltaNegativo(new_cost, current_cost)
                            \/ sorteo /\ Metropolis(new_cost, current_cost, u) } :
                /\ IF acepta THEN Commit(cand, mv, new_cost)
                   ELSE Descartar(cand, mv)
                /\ Registrar(info, mv, new_cost, sorteo, acepta)
       ELSE /\ Descartar(cand, mv)
            /\ Registrar(info, mv, Inf, FALSE, FALSE)
    /\ iter' = iter + 1
    /\ enfriamientos' = enfriamientos + 1
    /\ UNCHANGED <<pc, excepcion>>

\* random.choice(v_ids) of an empty list raises IndexError (line 304).
SinFlota ==
    /\ pc' = "raised"
    /\ excepcion' = "IndexError"
    /\ UNCHANGED <<iter, enfriamientos, ultima, rutas, no_asignados, current_cost,
                   min_cost, best_routes, best_no_asignados, best_cost, compartido>>

Otros(i) == { j \in 1..Len(vehiculos) : j # i }

Marco ==
    UNCHANGED <<vehiculos, pedidos, pedidos_ordenados, k, evaluados, greedy_cost,
                eval_out, otra, greedy_sol, respuesta, registro>>

\* The draws every iteration starts with: the move (line 301), then v1 (line 304).
Sorteos(move, mas, args) ==
    [move |-> move, draws |-> <<"move", "vehicle">> \o mas, args |-> args]

\* One iteration of the loop of line 289 whose move is insert_unassigned.
IterInsertUnassigned ==
    /\ pc = "sa" /\ iter < MaxIter
    /\ PuedeSalir("insert_unassigned")
    /\ IF Len(vehiculos) = 0 THEN SinFlota
       ELSE LET cand == CopiarEstado(rutas, no_asignados)
            IN  \E i1 \in 1..Len(vehiculos) :
                IF cand.un # <<>>
                THEN \E idx_un \in 0..(Len(cand.un) - 1), vt \in 1..Len(vehiculos) :
                        Evaluar(cand,
                                MoverInsertUnassigned(cand.routes, cand.un, idx_un,
                                                      vehiculos[vt]),
                                Sorteos("insert_unassigned", <<"index", "vehicle">>,
                                        <<idx_un, vt>>))
                ELSE Evaluar(cand, SinMover(cand.routes, cand.un),
                             Sorteos("insert_unassigned", <<>>, <<>>))
    /\ Marco

\* One iteration whose move is swap_inter.
IterSwapInter ==
    /\ pc = "sa" /\ iter < MaxIter
    /\ PuedeSalir("swap_inter")
    /\ IF Len(vehiculos) = 0 THEN SinFlota
       ELSE LET cand == CopiarEstado(rutas, no_asignados)
            IN  \E i1 \in 1..Len(vehiculos) :
                IF Len(vehiculos) > 1
                THEN \E i2 \in Otros(i1) :
                     LET v1 == vehiculos[i1]
                         v2 == vehiculos[i2]
                     IN  IF cand.routes[v1.id] # <<>> /\ cand.routes[v2.id] # <<>>
                         THEN \E idx1 \in 0..(Len(cand.routes[v1.id]) - 1),
                                 idx2 \in 0..(Len(cand.routes[v2.id]) - 1) :
                                 Evaluar(cand,
                                         MoverSwapInter(cand.routes, cand.un, v1, v2,
                                                        idx1, idx2),
                                         Sorteos("swap_inter",
                                                 <<"vehicle", "index", "index">>,
                                                 <<i1, i2, idx1, idx2>>))
                         ELSE Evaluar(cand, SinMover(cand.routes, cand.un),
                                      Sorteos("swap_inter", <<"vehicle">>, <<i1, i2>>))
                ELSE Evaluar(cand, SinMover(cand.routes, cand.un),
                             Sorteos("swap_inter", <<>>, <<i1>>))
    /\ Marco

\* One iteration whose move is move_inter.
IterMoveInter ==
    /\ pc = "sa" /\ iter < MaxIter
    /\ PuedeSalir("move_inter")
    /\ IF Len(vehiculos) = 0 THEN SinFlota
       ELSE LET cand == CopiarEstado(rutas, no_asignados)
            IN  \E i1 \in 1..Len(vehiculos) :
                IF Len(vehiculos) > 1
                THEN \E i2 \in Otros(i1) :
                     LET v1 == vehiculos[i1]
                         v2 == vehiculos[i2]
                     IN  IF cand.routes[v1.id] # <<>>
                         THEN \E idx1 \in 0..(Len(cand.routes[v1.id]) - 1),
                                 insert_idx \in 0..Len(cand.routes[v2.id]) :
                                 Evaluar(cand,
                                         MoverMoveInter(cand.routes, cand.un, v1, v2,
                                                        idx1, insert_idx),
                                         Sorteos("move_inter",
                                                 <<"vehicle", "index", "index">>,
                                                 <<i1, i2, idx1, insert_idx>>))
                         ELSE Evaluar(cand, SinMover(cand.routes, cand.un),
                                      Sorteos("move_inter", <<"vehicle">>, <<i1, i2>>))
                ELSE Evaluar(cand, SinMover(cand.routes, cand.un),
                             Sorteos("move_inter", <<>>, <<i1>>))
    /\ Marco

\* One iteration whose move is swap_intra.
IterSwapIntra ==
    /\ pc = "sa" /\ iter < MaxIter
    /\ PuedeSalir("swap_intra")
    /\ IF Len(vehiculos) = 0 THEN SinFlota
       ELSE LET cand == CopiarEstado(rutas, no_asignados)
            IN  \E i1 \in 1..Len(vehiculos) :
                LET v1 == vehiculos[i1]
                IN  IF Len(cand.routes[v1.id]) > 1
                    THEN \E idx1, idx2 \in 0..(Len(cand.routes[v1.id]) - 1) :
                            /\ idx1 # idx2
                            /\ Evaluar(cand,
                                       MoverSwapIntra(cand.routes, cand.un, v1,
                                                      idx1, idx2),
                                       Sorteos("swap_intra", <<"index", "index">>,
                                               <<i1, idx1, idx2>>))
                    ELSE Evaluar(cand, SinMover(cand.routes, cand.un),
                                 Sorteos("swap_intra", <<>>, <<i1>>))
    /\ Marco

\* Lines 416-424: the loop is over, `best` is returned.
Return ==
    /\ pc = "sa" /\ iter = MaxIter
    /\ pc' = "done"
    /\ UNCHANGED <<vehiculos, pedidos, pedidos_ordenados, k, rutas, no_asignados,
                   evaluados, greedy_cost, current_cost, best_routes,
                   best_no_asignados, best_cost, min_cost, iter, excepcion,
                   eval_out, otra, resto>>

-----------------------------------------------------------------------------
(* main.enrutar: the response built from the solution returned (main.py     *)
(* lines 147-229).                                                         *)

\* The service time enrutar adds after a stop, in minutes.
SERVICIO_ENRUTAR == 10

\* datetime.strftime("%H:%M") of minute t of the day.
strftime(t) ==
    LET h == (t \div 60) % 24
        m == t % 60
    IN  <<48 + (h \div 10), 48 + (h % 10), Colon, 48 + (m \div 10), 48 + (m % 10)>>

\* round(minutos / 60, 2), in hundredths of an hour (minutos / 60 is never half
\* way between two hundredths).
RedondearHoras(minutos) == (10 * minutos + 3) \div 6

\* Mutant: the clock is not moved to the opening of the window.
RECURSIVE RecorrerRespuestaSinEspera(_, _, _, _, _)
RecorrerRespuestaSinEspera(pedidos_ruta, i, tiempo_actual, lat_actual, acc) ==
    IF i > Len(pedidos_ruta) THEN [acc EXCEPT !.tiempo_actual = tiempo_actual]
    ELSE LET pedido == pedidos_ruta[i]
             dist_tramo == haversine_distance(lat_actual, pedido.destino)
             llegada == tiempo_actual
                        + (dist_tramo * 60) \div VELOCIDAD_PROMEDIO_KMH
             parada == [pedido |-> pedido.id,
                        latitud |-> pedido.destino,
                        orden |-> acc.orden_contador,
                        hora_estimada_entrega |-> strftime(llegada)]
         IN  RecorrerRespuestaSinEspera(pedidos_ruta, i + 1,
                 llegada + SERVICIO_ENRUTAR, pedido.destino,
                 [acc EXCEPT !.distancia_ruta = @ + dist_tramo,
                             !.carga_actual = @ + pedido.peso_kg,
                             !.pedidos_ids_asignados = Append(@, pedido.id),
                             !.ruta_detallada = Append(@, parada),
                             !.orden_contador = @ + 1])

\* The loop of lines 175-213 from stop i on.
RECURSIVE RecorrerRespuesta(_, _, _, _, _)
RecorrerRespuesta(pedidos_ruta, i, tiempo_actual, lat_actual, acc) ==
    IF i > Len(pedidos_ruta) THEN [acc EXCEPT !.tiempo_actual = tiempo_actual]
    ELSE LET pedido == pedidos_ruta[i]
             dist_tramo == haversine_distance(lat_actual, pedido.destino)
             llegada == tiempo_actual
                        + (dist_tramo * 60) \div VELOCIDAD_PROMEDIO_KMH
             t_inicio_ventana == ParseHM(pedido.ventana_inicio)
             t == IF llegada < t_inicio_ventana THEN t_inicio_ventana ELSE llegada
             parada == [pedido |-> pedido.id,
                        latitud |-> pedido.destino,
                        orden |-> acc.orden_contador,
                        hora_estimada_entrega |-> strftime(t)]
         IN  RecorrerRespuesta(pedidos_ruta, i + 1, t + SERVICIO_ENRUTAR,
                 pedido.destino,
                 [acc EXCEPT !.distancia_ruta = @ + dist_tramo,
                             !.carga_actual = @ + pedido.peso_kg,
                             !.pedidos_ids_asignados = Append(@, pedido.id),
                             !.ruta_detallada = Append(@, parada),
                             !.orden_contador = @ + 1])

\* Lines 158-229 for vehicle v: its entry of vehiculos_response.
VehiculoResponse(v, pedidos_ruta) ==
    LET tiempo_inicio == ParseHM(HORA_INICIO)
        fin == RecorrerRespuesta(pedidos_ruta, 1, tiempo_inicio, v.origen,
                   [distancia_ruta |-> 0, carga_actual |-> 0,
                    pedidos_ids_asignados |-> <<>>, ruta_detallada |-> <<>>,
                    orden_contador |-> 1, tiempo_actual |-> tiempo_inicio])
    IN  [id |-> v.id,
         origen |-> v.origen,
         pedidos_asignados |-> fin.pedidos_ids_asignados,
         ruta |-> fin.ruta_detallada,
         capacidad_utilizada_kg |-> fin.carga_actual,
         capacidad_maxima_kg |-> v.capacidad_kg,
         distancia_total_km |-> 100 * fin.distancia_ruta,
         tiempo_total_horas |-> RedondearHoras(fin.tiempo_actual - tiempo_inicio)]

\* The loop of line 152 over the first n vehicles: the vehicles with an empty
\* route are skipped (lines 153-155).
RECURSIVE VehiculosResponse(_, _, _)
VehiculosResponse(vs, rs, n) ==
    IF n = 0 THEN <<>>
    ELSE VehiculosResponse(vs, rs, n - 1)
         \o (IF rs[vs[n].id] = <<>> THEN <<>>
             ELSE <<VehiculoResponse(vs[n], rs[vs[n].id])>>)

\* enrutar after solve_vrp_simulated_annealing returned (lines 141-229).
Enrutar ==
    /\ pc = "done"
    /\ respuesta' = VehiculosResponse(vehiculos, best_routes, Len(vehiculos))
    /\ pc' = "respondido"
    /\ UNCHANGED <<vehiculos, pedidos, pedidos_ordenados, k, rutas, no_asignados,
                   evaluados, greedy_cost, current_cost, best_routes,
                   best_no_asignados, best_cost, min_cost, iter, excepcion,
                   eval_out, otra, greedy_sol, compartido, enfriamientos,
                   registro, ultima>>

Next ==
    \/ GreedyInicio
    \/ GreedyStep
    \/ SAInit
    \/ IterInsertUnassigned
    \/ IterSwapInter
    \/ IterMoveInter
    \/ IterSwapIntra
    \/ Return
    \/ Enrutar

Spec == Init /\ [][Next]_vars

\* The solver on the second fleet, with the history of each iteration recorded.
InitHist == Llamada(Flotas2, Entradas2, TRUE)

SpecHist == InitHist /\ [][Next]_vars

\* The solver on the second fleet with the orders of CatalogoJornada.
InitJornada == Llamada(Flotas2, EntradasJornada, FALSE)

SpecJornada == InitJornada /\ [][Next]_vars

-----------------------------------------------------------------------------
(* Reference definitions used to state the properties: what the spec says   *)
(* of a route, written over stop indexes and without any early return.     *)

Max(a, b) == IF a >= b THEN a ELSE b

\* Total weight of the first n stops of r.
RECURSIVE PesoRef(_, _)
PesoRef(r, n) == IF n = 0 THEN 0 ELSE PesoRef(r, n - 1) + r[n].peso_kg

\* Position before stop i of route r of vehicle v.
PosAntes(v, r, i) == IF i = 1 THEN v.origen ELSE r[i - 1].destino

\* Kilometres of the leg that ends at stop i.
TramoRef(v, r, i) == haversine_distance(PosAntes(v, r, i), r[i].destino)

\* SalidaRef(v, r, i): minute at which the service of stop i ends (i = 0: the
\* start of the day).  LlegadaRef: arrival at stop i.  InicioRef: start of the
\* service of stop i, after waiting for the window to open.
RECURSIVE SalidaRef(_, _, _)
LlegadaRef(v, r, i) ==
    SalidaRef(v, r, i - 1) + (60 * TramoRef(v, r, i)) \div VELOCIDAD_PROMEDIO_KMH
InicioRef(v, r, i) == Max(LlegadaRef(v, r, i), ParseHM(r[i].ventana_inicio))
SalidaRef(v, r, i) ==
    IF i = 0 THEN ParseHM(HORA_INICIO)
    ELSE InicioRef(v, r, i) + TIEMPO_SERVICIO_MINUTOS

TardeRef(v, r, i) == InicioRef(v, r, i) > ParseHM(r[i].ventana_fin)

\* The three hard constraints of a route.
CapacidadOK(v, r) == PesoRef(r, Len(r)) <= v.capacidad_kg
VentanasOK(v, r) == \A i \in 1..Len(r) : ~TardeRef(v, r, i)
JornadaOK(v, r) ==
    SalidaRef(v, r, Len(r)) - ParseHM(HORA_INICIO) <= 60 * MAX_JORNADA_HORAS
FactibleRef(v, r) == CapacidadOK(v, r) /\ VentanasOK(v, r) /\ JornadaOK(v, r)

\* Where order id stands in the solution (rs, un).
Lugares(vs, rs, un, id) ==
    UNION { { <<"ruta", vs[i].id, j>> :
              j \in { j \in 1..Len(rs[vs[i].id]) : rs[vs[i].id][j].id = id } } :
            i \in 1..Len(vs) }
    \cup { <<"no_asignado", j>> : j \in { j \in 1..Len(un) : un[j].pedido.id = id } }

\* The orders of the solution (rs, un).
Contenido(vs, rs, un) ==
    UNION { { rs[vs[i].id][j] : j \in 1..Len(rs[vs[i].id]) } : i \in 1..Len(vs) }
    \cup { un[j].pedido : j \in 1..Len(un) }

EntradaSet == { pedidos[i] : i \in 1..Len(pedidos) }

Particion(vs, rs, un) ==
    /\ \A p \in EntradaSet : Cardinality(Lugares(vs, rs, un, p.id)) = 1
    /\ Contenido(vs, rs, un) = EntradaSet

GreedyTerminado == pc = "greedy" /\ k > Len(pedidos_ordenados)
EnSA == pc \in {"sa", "done"}

TodasFactibles(vs, rs) ==
    \A i \in 1..Len(vs) :
        /\ FactibleRef(vs[i], rs[vs[i].id])
        /\ calculate_route_metrics(vs[i], rs[vs[i].id]).is_feasible

-----------------------------------------------------------------------------
(* C1.  Partition: in the greedy solution, in every `current` and `best`   *)
(* state of the annealing and in the solution returned, every input order  *)
(* stands at exactly one place (one position of one route, or once in the  *)
(* unassigned list), and nothing else appears.                             *)
C1_Particion ==
    /\ GreedyTerminado => Particion(vehiculos, rutas, no_asignados)
    /\ EnSA => /\ Particion(vehiculos, rutas, no_asignados)
               /\ Particion(vehiculos, best_routes, best_no_asignados)

\* A returned solution that the annealing changed, with routed and unassigned orders.
C1_Witness ==
    /\ pc = "done"
    /\ CostLess(best_cost, greedy_cost)
    /\ best_no_asignados # <<>>
    /\ \E i \in 1..Len(vehiculos) : Len(best_routes[vehiculos[i].id]) >= 2

(* C2.  Hard constraints: every route of every greedy, `current` and `best` *)
(* state and of the returned solution is within capacity, reaches every    *)
(* stop no later than its window closes, ends within MAX_JORNADA_HORAS of   *)
(* 08:00, and is classified feasible by calculate_route_metrics.           *)
C2_RutasFactibles ==
    /\ pc = "greedy" => TodasFactibles(vehiculos, rutas)
    /\ EnSA => /\ TodasFactibles(vehiculos, rutas)
               /\ TodasFactibles(vehiculos, best_routes)

\* A returned solution the annealing improved, one route with a wait at a stop.
C2_Witness ==
    /\ pc = "done"
    /\ CostLess(best_cost, greedy_cost)
    /\ \E i \in 1..Len(vehiculos) :
          LET v == vehiculos[i]
              r == best_routes[v.id]
          IN  /\ Len(r) >= 2
              /\ \E j \in 1..Len(r) : LlegadaRef(v, r, j) < InicioRef(v, r, j)

(* C3.  The global cost of the returned solution is at most that of the     *)
(* greedy solution; best_cost never increases, is the global cost of `best`, *)
(* and is at most the least value current_cost ever had.                   *)
C3_Estado ==
    EnSA =>
        /\ best_cost = calculate_global_cost(vehiculos, best_routes, best_no_asignados)
        /\ greedy_cost.fin
        /\ ~CostLess(greedy_cost, best_cost)
        /\ ~CostLess(min_cost, best_cost)
        /\ ~CostLess(current_cost, min_cost)

C3_MejorNoEmpeora ==
    /\ []C3_Estado
    /\ [][pc = "sa" => ~CostLess(best_cost, best_cost')]_vars

\* A run in which a worse candidate was accepted and `best` kept the better cost.
C3_Witness ==
    /\ pc = "done"
    /\ CostLess(best_cost, current_cost)
    /\ CostLess(best_cost, greedy_cost)

-----------------------------------------------------------------------------
(* Two runs of solve_vrp_greedy on the same input, side by side: the first  *)
(* in rutas / no_asignados, the second in `otra`.                          *)

DetInicio ==
    /\ pc = "inicio"
    /\ pedidos_ordenados' = sorted(pedidos)
    /\ rutas' = RutasVacias(vehiculos)
    /\ otra' = [rutas |-> RutasVacias(vehiculos), no_asignados |-> <<>>]
    /\ pc' = "greedy"
    /\ UNCHANGED <<vehiculos, pedidos, k, no_asignados, evaluados, greedy_cost,
                   current_cost, best_routes, best_no_asignados, best_cost, min_cost,
                   iter, excepcion, eval_out, resto>>

DetStep ==
    /\ pc = "greedy"
    /\ k <= Len(pedidos_ordenados)
    /\ IF Len(vehiculos) = 0
       THEN /\ pc' = "raised"
            /\ excepcion' = "ValueError"
            /\ UNCHANGED <<k, rutas, no_asignados, evaluados, otra>>
       ELSE /\ \E out \in PasoGreedy(vehiculos, rutas, no_asignados,
                                     pedidos_ordenados[k]),
                  out2 \in PasoGreedy(vehiculos, otra.rutas, otra.no_asignados,
                                      pedidos_ordenados[k]) :
                 /\ rutas' = out.rutas
                 /\ no_asignados' = out.no_asignados
                 /\ evaluados' = IF out.evaluado
                                 THEN evaluados \cup {pedidos_ordenados[k].id}
                                 ELSE evaluados
                 /\ otra' = [rutas |-> out2.rutas, no_asignados |-> out2.no_asignados]
            /\ k' = k + 1
            /\ UNCHANGED <<pc, excepcion>>
    /\ UNCHANGED <<vehiculos, pedidos, pedidos_ordenados, greedy_cost, current_cost,
                   best_routes, best_no_asignados, best_cost, min_cost, iter,
                   eval_out, resto>>

\* Both runs return (lines 257-265).
DetReturn ==
    /\ GreedyTerminado
    /\ pc' = "done"
    /\ UNCHANGED <<vehiculos, pedidos, pedidos_ordenados, k, rutas, no_asignados,
                   evaluados, greedy_cost, current_cost, best_routes,
                   best_no_asignados, best_cost, min_cost, iter, excepcion,
                   eval_out, otra, resto>>

NextDet == DetInicio \/ DetStep \/ DetReturn

SpecDet == Init /\ [][NextDet]_vars

(* C4.  Determinism: two runs of solve_vrp_greedy on the same vehicles and  *)
(* orders return the same routes and the same unassigned entries, the      *)
(* aggregated reason text included.                                        *)
C4_Determinismo ==
    pc = "done" => /\ otra.rutas = rutas
                   /\ otra.no_asignados = no_asignados

-----------------------------------------------------------------------------
(* The evaluator and the cost functions applied to arbitrary solutions:    *)
(* any split of a list of orders over the routes and the unassigned list,  *)
(* feasible or not.                                                        *)

\* Orders with boundary values: a window that closes at the minute of arrival
\* from V1, a window whose opening ends the day at exactly 8 h, and a window
\* written without a leading zero.
CatalogoEval ==
    Catalogo \cup
    { Pedido("Y", 5, 1, S_0800, S_0810, 3),
      Pedido("M", 1, 1, S_1550, S_1700, 2) }

EntradasEval == ListasSinRepetir({ p \in CatalogoEval : Aceptado(p) }, MaxEval)

\* The orders l[i] with asig[i] = a, in the order of l.
RECURSIVE Asignados(_, _, _, _)
Asignados(l, asig, a, n) ==
    IF n = 0 THEN <<>>
    ELSE Asignados(l, asig, a, n - 1) \o (IF asig[n] = a THEN <<l[n]>> ELSE <<>>)

RECURSIVE ComoNoAsignados(_)
ComoNoAsignados(l) ==
    IF Len(l) = 0 THEN <<>>
    ELSE <<[pedido |-> l[1], razon |-> <<"No factible en ninguna ruta">>]>>
         \o ComoNoAsignados(Tail(l))

InitEval ==
    /\ vehiculos \in Flotas
    /\ pedidos \in EntradasEval
    /\ \E asig \in [1..Len(pedidos) -> 0..Len(vehiculos)] :
          /\ rutas = [id \in { vehiculos[i].id : i \in 1..Len(vehiculos) } |->
                        LET i == CHOOSE i \in 1..Len(vehiculos) : vehiculos[i].id = id
                        IN  Asignados(pedidos, asig, i, Len(pedidos))]
          /\ no_asignados = ComoNoAsignados(Asignados(pedidos, asig, 0, Len(pedidos)))
    /\ pc = "eval"
    /\ registro = FALSE
    /\ greedy_sol = <<>>
    /\ compartido = FALSE
    /\ enfriamientos = 0
    /\ respuesta = <<>>
    /\ ultima = <<>>
    /\ pedidos_ordenados = <<>>
    /\ k = 1
    /\ evaluados = {}
    /\ greedy_cost = Inf
    /\ current_cost = Inf
    /\ best_routes = <<>>
    /\ best_no_asignados = <<>>
    /\ best_cost = Inf
    /\ min_cost = Inf
    /\ iter = 0
    /\ excepcion = ""
    /\ eval_out = <<>>
    /\ otra = <<>>

MarcoEval ==
    UNCHANGED <<vehiculos, pedidos, pc, pedidos_ordenados, k, rutas, no_asignados,
                evaluados, greedy_cost, current_cost, best_routes, best_no_asignados,
                best_cost, min_cost, iter, excepcion, otra, resto>>

EvalRouteMetrics ==
    /\ pc = "eval"
    /\ \E i \in 1..Len(vehiculos) :
          eval_out' = [fn |-> "calculate_route_metrics", veh |-> i,
                       res |-> calculate_route_metrics(vehiculos[i],
                                                       rutas[vehiculos[i].id])]
    /\ MarcoEval

EvalRouteCost ==
    /\ pc = "eval"
    /\ \E i \in 1..Len(vehiculos) :
          eval_out' = [fn |-> "calculate_route_cost", veh |-> i,
                       res |-> calculate_route_cost(vehiculos[i],
                                                    rutas[vehiculos[i].id])]
    /\ MarcoEval

EvalGlobalCost ==
    /\ pc = "eval"
    /\ eval_out' = [fn |-> "calculate_global_cost", veh |-> 0,
                    res |-> calculate_global_cost(vehiculos, rutas, no_asignados)]
    /\ MarcoEval

NextEval == EvalRouteMetrics \/ EvalRouteCost \/ EvalGlobalCost

SpecEval == InitEval /\ [][NextEval]_vars

\* Kilometres and minutes of waiting of the first n stops.
RECURSIVE DistRef(_, _, _)
DistRef(v, r, n) == IF n = 0 THEN 0 ELSE DistRef(v, r, n - 1) + TramoRef(v, r, n)

RECURSIVE EsperaRef(_, _, _)
EsperaRef(v, r, n) ==
    IF n = 0 THEN 0
    ELSE EsperaRef(v, r, n - 1) + (InicioRef(v, r, n) - LlegadaRef(v, r, n))

\* The reference simulation with first-violation short-circuit.
MetricsRef(v, r) ==
    LET n == Len(r)
        peso == PesoRef(r, n)
        tardes == { i \in 1..n : TardeRef(v, r, i) }
        total == SalidaRef(v, r, n) - ParseHM(HORA_INICIO)
        base == [distance_km |-> 0, wait_minutes |-> 0, load_kg |-> peso,
                 overtime_minutes |-> 0, lateness_count |-> 0,
                 is_feasible |-> TRUE, rejection_reason |-> <<>>]
    IN  IF peso > v.capacidad_kg
        THEN [base EXCEPT !.is_feasible = FALSE,
                          !.rejection_reason =
                              <<"Capacidad excedida", peso, v.capacidad_kg>>]
        ELSE IF tardes # {}
        THEN LET f == CHOOSE i \in tardes : \A j \in tardes : i <= j
             IN  [base EXCEPT !.distance_km = DistRef(v, r, f),
                              !.wait_minutes = EsperaRef(v, r, f),
                              !.lateness_count = 1,
                              !.is_feasible = FALSE,
                              !.rejection_reason = <<"Llegada tardia", r[f].id>>]
        ELSE IF total > 60 * MAX_JORNADA_HORAS
        THEN [base EXCEPT !.distance_km = DistRef(v, r, n),
                          !.wait_minutes = EsperaRef(v, r, n),
                          !.overtime_minutes = total - 60 * MAX_JORNADA_HORAS,
                          !.is_feasible = FALSE,
                          !.rejection_reason = <<"Excede jornada maxima", total>>]
        ELSE [base EXCEPT !.distance_km = DistRef(v, r, n),
                          !.wait_minutes = EsperaRef(v, r, n)]

(* C5.  calculate_route_metrics equals the reference simulation with        *)
(* first-violation short-circuit (capacity, then the first late stop, then *)
(* the workday); it is feasible exactly when the three hard constraints    *)
(* hold, load_kg is the total weight, lateness_count is 0 or 1, and an     *)
(* empty route is feasible with all metrics zero.                          *)
C5_MetricsRef ==
    (pc = "eval" /\ eval_out # <<>> /\ eval_out.fn = "calculate_route_metrics") =>
        LET v == vehiculos[eval_out.veh]
            r == rutas[v.id]
            m == eval_out.res
        IN  /\ m = MetricsRef(v, r)
            /\ m.is_feasible = FactibleRef(v, r)
            /\ m.load_kg = PesoRef(r, Len(r))
            /\ m.lateness_count \in {0, 1}
            /\ r = <<>> =>
                  m = [distance_km |-> 0, wait_minutes |-> 0, load_kg |-> 0,
                       overtime_minutes |-> 0, lateness_count |-> 0,
                       is_feasible |-> TRUE, rejection_reason |-> <<>>]

\* A route whose second stop is late after a wait at the first.
C5_Witness ==
    /\ pc = "eval" /\ eval_out # <<>>
    /\ eval_out.fn = "calculate_route_metrics"
    /\ eval_out.res.rejection_reason # <<>>
    /\ eval_out.res.rejection_reason[1] = "Llegada tardia"
    /\ eval_out.res.wait_minutes > 0
    /\ eval_out.res.distance_km > 0

\* The cost of a route by the formula of the spec, times CostUnit.
RouteCostRef(v, r) ==
    W_DIST * CostUnit * DistRef(v, r, Len(r))
    + (W_WAIT_NUM * CostUnit * EsperaRef(v, r, Len(r))) \div (W_WAIT_DEN * 60)
    + (W_CAP * CostUnit * PesoRef(r, Len(r)) * PesoRef(r, Len(r)))
      \div (v.capacidad_kg * v.capacidad_kg)

RECURSIVE SumaRutasRef(_, _, _)
SumaRutasRef(vs, rs, n) ==
    IF n = 0 THEN 0
    ELSE SumaRutasRef(vs, rs, n - 1) + RouteCostRef(vs[n], rs[vs[n].id])

RECURSIVE SumaNoAsignadosRef(_, _)
SumaNoAsignadosRef(un, n) ==
    IF n = 0 THEN 0
    ELSE SumaNoAsignadosRef(un, n - 1)
         + W_UNASSIGNED * CostUnit * un[n].pedido.prioridad * un[n].pedido.prioridad

GlobalCostRef(vs, rs, un) ==
    IF \E i \in 1..Len(vs) : ~FactibleRef(vs[i], rs[vs[i].id])
    THEN Inf
    ELSE Fin(SumaRutasRef(vs, rs, Len(vs)) + SumaNoAsignadosRef(un, Len(un)))

(* C6.  calculate_global_cost is +infinity when some route is infeasible,   *)
(* whatever the unassigned list; otherwise it is the sum over the routes of *)
(* W_DIST*distance + W_WAIT*wait/60 + W_CAP*(load/capacity)^2 plus the sum  *)
(* over the unassigned orders of W_UNASSIGNED*priority^2; with one route    *)
(* and nothing unassigned it is calculate_route_cost of that route.        *)
C6_GlobalCostRef ==
    (pc = "eval" /\ eval_out # <<>> /\ eval_out.fn = "calculate_global_cost") =>
        /\ eval_out.res = GlobalCostRef(vehiculos, rutas, no_asignados)
        /\ (Len(vehiculos) = 1 /\ no_asignados = <<>>) =>
              eval_out.res = calculate_route_cost(vehiculos[1], rutas[vehiculos[1].id])

\* A finite global cost of two used routes and an unassigned order of priority > 1.
C6_Witness ==
    /\ pc = "eval" /\ eval_out # <<>>
    /\ eval_out.fn = "calculate_global_cost"
    /\ eval_out.res.fin
    /\ \E j \in 1..Len(no_asignados) : no_asignados[j].pedido.prioridad > 1
    /\ \E i \in 1..Len(vehiculos) : rutas[vehiculos[i].id] # <<>>

-----------------------------------------------------------------------------
(* Properties of the whole solver (specification Spec).                    *)

Rango(l) == { l[j] : j \in 1..Len(l) }

\* Heavier than every vehicle of a non-empty fleet.
Sobrepeso(p) ==
    /\ Len(vehiculos) > 0
    /\ \A i \in 1..Len(vehiculos) : p.peso_kg > vehiculos[i].capacidad_kg

\* The entry the greedy writes for an order heavier than the fleet maximum.
EntradaSobrepeso(p) ==
    [pedido |-> p,
     razon |-> <<"Peso excesivo", p.peso_kg,
                 CHOOSE c \in { vehiculos[i].capacidad_kg : i \in 1..Len(vehiculos) } :
                     \A i \in 1..Len(vehiculos) : vehiculos[i].capacidad_kg <= c>>]

EnAlgunaRuta(vs, rs, p) ==
    \E i \in 1..Len(vs) : \E j \in 1..Len(rs[vs[i].id]) : rs[vs[i].id][j].id = p.id

(* C7.  An order heavier than every vehicle is recorded by the greedy as    *)
(* unassigned with the fleet-maximum reason, its insertion loop is never   *)
(* entered, and it stays in the unassigned list, with that reason, of      *)
(* `current`, of `best` and of the solution returned by the annealing.     *)
C7_Sobrepeso ==
    \A j \in 1..Len(pedidos_ordenados) :
        LET p == pedidos_ordenados[j]
        IN  Sobrepeso(p) =>
              /\ p.id \notin evaluados
              /\ (pc = "greedy" /\ j < k) =>
                    /\ EntradaSobrepeso(p) \in Rango(no_asignados)
                    /\ ~EnAlgunaRuta(vehiculos, rutas, p)
              /\ EnSA =>
                    /\ EntradaSobrepeso(p) \in Rango(no_asignados)
                    /\ EntradaSobrepeso(p) \in Rango(best_no_asignados)
                    /\ ~EnAlgunaRuta(vehiculos, rutas, p)
                    /\ ~EnAlgunaRuta(vehiculos, best_routes, p)

\* A returned solution, improved by the annealing, with an over-heavy order.
C7_Witness ==
    /\ pc = "done"
    /\ CostLess(best_cost, greedy_cost)
    /\ \E j \in 1..Len(best_no_asignados) :
          /\ Sobrepeso(best_no_asignados[j].pedido)
          /\ best_no_asignados[j].razon[1] = "Peso excesivo"

\* Index of order p in the input list.
IndiceEntrada(p) == CHOOSE i \in 1..Len(pedidos) : pedidos[i] = p

\* a is processed before b: priority descending, then window-open time of day
\* ascending, then input order.
AntesRef(a, b) ==
    \/ a.prioridad > b.prioridad
    \/ /\ a.prioridad = b.prioridad
       /\ ParseHM(a.ventana_inicio) < ParseHM(b.ventana_inicio)
    \/ /\ a.prioridad = b.prioridad
       /\ ParseHM(a.ventana_inicio) = ParseHM(b.ventana_inicio)
       /\ IndiceEntrada(a) < IndiceEntrada(b)

(* C8.  The greedy processes the orders by priority descending, then by     *)
(* window-open time of day ascending, input order kept among orders equal   *)
(* on both, for every window-open string the ingestion accepts.            *)
C8_OrdenPorHora ==
    pc # "inicio" =>
        /\ Rango(pedidos_ordenados) = Rango(pedidos)
        /\ Len(pedidos_ordenados) = Len(pedidos)
        /\ \A i, j \in 1..Len(pedidos_ordenados) :
              i < j => AntesRef(pedidos_ordenados[i], pedidos_ordenados[j])

(* C9.  For every list of vehicles and of orders that satisfy the input     *)
(* contract, an empty list included, the solver returns without raising.   *)
C9_NuncaLanza == pc # "raised"

\* No position of any route of rs takes order p.
SinLugar(vs, rs, p) ==
    \A i \in 1..Len(vs) : \A pos \in 0..Len(rs[vs[i].id]) :
        ~FactibleRef(vs[i], InsertAt(rs[vs[i].id], pos, p))

(* C10 as claimed.  Every order in the unassigned list of the returned      *)
(* solution is infeasible at every position of every returned route.       *)
C10_NoAsignables ==
    pc = "done" =>
        \A j \in 1..Len(best_no_asignados) :
            SinLugar(vehiculos, best_routes, best_no_asignados[j].pedido)

(* C10 as amended.  An order enters the unassigned list only in a pass of   *)
(* the greedy in which every position of every route, as the routes stand  *)
(* in that pass, is infeasible for it; the annealing adds no entry, so the  *)
(* unassigned list of `best` holds only such entries.                      *)
C10_RechazoGreedy ==
    [][ /\ \A e \in Rango(no_asignados') \ Rango(no_asignados) :
              /\ pc = "greedy"
              /\ e.pedido = pedidos_ordenados[k]
              /\ SinLugar(vehiculos, rutas, e.pedido)
        /\ Rango(best_no_asignados') \subseteq
              Rango(best_no_asignados) \cup Rango(no_asignados') ]_vars

\* A returned solution with an unassigned order, not over-heavy, that one of the
\* returned routes could take.
C10_Witness ==
    /\ pc = "done"
    /\ \E j \in 1..Len(best_no_asignados) :
          /\ ~Sobrepeso(best_no_asignados[j].pedido)
          /\ ~SinLugar(vehiculos, best_routes, best_no_asignados[j].pedido)

-----------------------------------------------------------------------------
(* Distance of the returned solution against the greedy solution           *)
(* (specification SpecHist).                                               *)

\* Kilometres of the routes of the first n vehicles.
RECURSIVE DistanciaTotal(_, _, _)
DistanciaTotal(vs, rs, n) ==
    IF n = 0 THEN 0
    ELSE DistanciaTotal(vs, rs, n - 1)
         + DistRef(vs[n], rs[vs[n].id], Len(rs[vs[n].id]))

Intercambio(r, i, j) == [r EXCEPT ![i] = r[j], ![j] = r[i]]

\* Swapping two stops inside one route of rs shortens that route.
SwapAcorta(vs, rs) ==
    \E n \in 1..Len(vs) :
        LET v == vs[n]
            r == rs[v.id]
        IN  \E i, j \in 1..Len(r) :
                /\ i < j
                /\ DistRef(v, Intercambio(r, i, j), Len(r)) < DistRef(v, r, Len(r))

\* The terms of the global cost other than the distance (waiting, load
\* balance, unassigned orders), times CostUnit, of a feasible solution.
OtrosTerminos(vs, rs, un) ==
    GlobalCostRef(vs, rs, un).v - W_DIST * CostUnit * DistanciaTotal(vs, rs, Len(vs))

(* C11 as claimed.  On an instance in which swapping two stops of a route   *)
(* of the greedy solution shortens the distance, the total distance of the *)
(* solution returned by the annealing is at most that of the greedy        *)
(* solution.                                                               *)
C11_DistanciaNoCrece ==
    (pc = "done" /\ SwapAcorta(vehiculos, greedy_sol.rutas)) =>
        DistanciaTotal(vehiculos, best_routes, Len(vehiculos))
            <= DistanciaTotal(vehiculos, greedy_sol.rutas, Len(vehiculos))

(* C11 as amended.  On such an instance the total distance of the returned  *)
(* solution exceeds that of the greedy solution by no more than the amount *)
(* by which the other terms of the global cost (waiting, load balance,     *)
(* unassigned penalties) went down.                                        *)
C11_DistanciaAcotada ==
    (pc = "done" /\ SwapAcorta(vehiculos, greedy_sol.rutas)) =>
        W_DIST * CostUnit
          * (DistanciaTotal(vehiculos, best_routes, Len(vehiculos))
             - DistanciaTotal(vehiculos, greedy_sol.rutas, Len(vehiculos)))
        <= OtrosTerminos(vehiculos, greedy_sol.rutas, greedy_sol.no_asignados)
           - OtrosTerminos(vehiculos, best_routes, best_no_asignados)

\* A returned solution longer than the greedy solution, whose route could be
\* shortened by a swap.
C11_Witness ==
    /\ pc = "done"
    /\ SwapAcorta(vehiculos, greedy_sol.rutas)
    /\ DistanciaTotal(vehiculos, best_routes, Len(vehiculos))
          > DistanciaTotal(vehiculos, greedy_sol.rutas, Len(vehiculos))


-----------------------------------------------------------------------------
\* The vehicles of vs that have a stop in rs, in the order of vs.
ConRuta(vs, rs) == SelectSeq(vs, LAMBDA v : rs[v.id] # <<>>)

\* Entry e of the response describes route r of vehicle v as the evaluator
\* simulates it.
EntradaRefina(e, v, r) ==
    /\ e.id = v.id
    /\ Len(e.ruta) = Len(r)
    /\ Len(e.pedidos_asignados) = Len(r)
    /\ \A i \in 1..Len(r) :
          /\ e.ruta[i].pedido = r[i].id
          /\ e.pedidos_asignados[i] = r[i].id
          /\ e.ruta[i].orden = i
          /\ ParseHM(e.ruta[i].hora_estimada_entrega) = InicioRef(v, r, i)
          /\ InicioRef(v, r, i) >= ParseHM(r[i].ventana_inicio)
          /\ InicioRef(v, r, i) <= ParseHM(r[i].ventana_fin)
    /\ e.tiempo_total_horas
           = RedondearHoras(SalidaRef(v, r, Len(r)) - ParseHM(HORA_INICIO))
    /\ e.tiempo_total_horas <= 100 * MAX_JORNADA_HORAS
    /\ e.distancia_total_km = 100 * calculate_route_metrics(v, r).distance_km
    /\ e.capacidad_utilizada_kg = calculate_route_metrics(v, r).load_kg

(* C12.  The response of /api/enrutar refines the evaluator: it lists the   *)
(* vehicles with a non-empty route and only them, in fleet order; the stops *)
(* of a route are numbered 1..n in visit order; the estimated delivery time *)
(* of a stop is the evaluator's service start of that stop, between the     *)
(* opening and the closing of its window; and the duration reported is the  *)
(* evaluator's total time of the route, at most 8 hours.                    *)
C12_RespuestaRefina ==
    pc = "respondido" =>
        LET listados == ConRuta(vehiculos, best_routes)
        IN  /\ Len(respuesta) = Len(listados)
            /\ \A n \in 1..Len(respuesta) :
                  EntradaRefina(respuesta[n], listados[n],
                                best_routes[listados[n].id])

\* A response that skips a vehicle and lists a route of two stops, one of them
\* reached before its window opens.
C12_Witness ==
    /\ pc = "respondido"
    /\ Len(respuesta) < Len(vehiculos)
    /\ \E n \in 1..Len(respuesta) :
          LET v == ConRuta(vehiculos, best_routes)[n]
              r == best_routes[v.id]
          IN  /\ Len(respuesta[n].ruta) >= 2
              /\ \E j \in 1..Len(r) : LlegadaRef(v, r, j) < InicioRef(v, r, j)

-----------------------------------------------------------------------------
(* Rejection by the greedy constructor (specification Spec).                *)

\* The first stop of r reached after its window closes.
PrimerTardio(v, r) ==
    CHOOSE i \in 1..Len(r) :
        TardeRef(v, r, i) /\ \A j \in 1..(i - 1) : ~TardeRef(v, r, j)

\* The reason for which route r of vehicle v breaks a hard constraint, with the
\* id of the vehicle: capacity first, then the first late stop, then the day.
RazonRef(v, r) ==
    IF ~CapacidadOK(v, r)
    THEN <<"Capacidad excedida", v.id, PesoRef(r, Len(r)), v.capacidad_kg>>
    ELSE IF ~VentanasOK(v, r)
    THEN <<"Llegada tardia", v.id, r[PrimerTardio(v, r)].id>>
    ELSE <<"Excede jornada maxima", v.id,
           SalidaRef(v, r, Len(r)) - ParseHM(HORA_INICIO)>>

\* The distinct reasons for which the routes of rs reject order p.
RazonesRef(vs, rs, p) ==
    UNION { { RazonRef(vs[i], InsertAt(rs[vs[i].id], pos, p)) :
              pos \in { q \in 0..Len(rs[vs[i].id]) :
                        ~FactibleRef(vs[i], InsertAt(rs[vs[i].id], q, p)) } } :
            i \in 1..Len(vs) }

\* The pass of the greedy loop for an order within the fleet maximum.
PasoNormal ==
    /\ pc = "greedy"
    /\ k <= Len(pedidos_ordenados)
    /\ Len(vehiculos) > 0
    /\ ~Sobrepeso(pedidos_ordenados[k])

(* C13.  In a pass of the greedy for an order within the fleet maximum: if  *)
(* no position of any route is feasible for the order, every route is left  *)
(* unchanged and the order is appended to the unassigned list with a reason *)
(* that holds each distinct per-vehicle rejection reason exactly once       *)
(* (capacity for a vehicle whose remaining capacity the order exceeds, a    *)
(* late arrival or the length of the day otherwise); and the order is       *)
(* appended to the unassigned list only if no position is feasible.         *)
C13_RechazoConRazones ==
    [][ PasoNormal =>
          LET p == pedidos_ordenados[k]
              n == Len(no_asignados')
          IN  /\ SinLugar(vehiculos, rutas, p) =>
                    /\ rutas' = rutas
                    /\ n = Len(no_asignados) + 1
                    /\ SubSeq(no_asignados', 1, n - 1) = no_asignados
                    /\ no_asignados'[n].pedido = p
                    /\ no_asignados'[n].razon[1] = "join"
                    /\ LET razones == Tail(no_asignados'[n].razon)
                       IN  /\ Rango(razones) = RazonesRef(vehiculos, rutas, p)
                           /\ Len(razones) = Cardinality(Rango(razones))
                           /\ \A i \in 1..Len(vehiculos) :
                                 LET v == vehiculos[i]
                                 IN  (PesoRef(rutas[v.id], Len(rutas[v.id]))
                                          + p.peso_kg > v.capacidad_kg)
                                     <=> (\E x \in Rango(razones) :
                                             /\ x[1] = "Capacidad excedida"
                                             /\ x[2] = v.id)
              /\ no_asignados' # no_asignados =>
                    SinLugar(vehiculos, rutas, p) ]_vars

\* After a pass that rejected an order: a capacity reason of one vehicle and a
\* late arrival of the other, fewer reasons than positions tried.
C13_Witness ==
    /\ pc = "greedy"
    /\ k > 1
    /\ no_asignados # <<>>
    /\ LET e == no_asignados[Len(no_asignados)]
       IN  /\ e.pedido = pedidos_ordenados[k - 1]
           /\ e.razon[1] = "join"
           /\ \E x, y \in Rango(Tail(e.razon)) :
                 x[1] = "Capacidad excedida" /\ y[1] = "Llegada tardia"
           /\ \E i \in 1..Len(vehiculos) :
                 Cardinality({ x \in Rango(Tail(e.razon)) : x[2] = vehiculos[i].id })
                     < Len(rutas[vehiculos[i].id]) + 1

-----------------------------------------------------------------------------
(* Choice of the insertion by the greedy constructor (specification         *)
(* SpecHist).                                                              *)

\* Marginal cost of order p at position pos of the route of vehicle vs[i].
DeltaRef(vs, rs, p, i, pos) ==
    RouteCostRef(vs[i], InsertAt(rs[vs[i].id], pos, p))
        - RouteCostRef(vs[i], rs[vs[i].id])

\* The feasible pairs <<vehicle index, position>> for order p.
ParesFactibles(vs, rs, p) ==
    { par \in (1..Len(vs)) \X (0..MaxPedidos) :
        /\ par[2] <= Len(rs[vs[par[1]].id])
        /\ FactibleRef(vs[par[1]], InsertAt(rs[vs[par[1]].id], par[2], p)) }

\* The pair the spec selects: least delta, then first vehicle, then smallest
\* position.
ParElegido(vs, rs, p) ==
    CHOOSE a \in ParesFactibles(vs, rs, p) :
        \A b \in ParesFactibles(vs, rs, p) :
            \/ DeltaRef(vs, rs, p, a[1], a[2]) < DeltaRef(vs, rs, p, b[1], b[2])
            \/ /\ DeltaRef(vs, rs, p, a[1], a[2]) = DeltaRef(vs, rs, p, b[1], b[2])
               /\ \/ a[1] < b[1]
                  \/ a[1] = b[1] /\ a[2] <= b[2]

BaseFinita ==
    pc = "greedy" =>
        \A i \in 1..Len(vehiculos) :
            calculate_route_cost(vehiculos[i], rutas[vehiculos[i].id]).fin

-----------------------------------------------------------------------------
(* Iterations of the annealing (specification SpecHist, which records in   *)
(* `ultima` what the last iteration drew and did).                         *)

\* The step is a whole iteration of the loop of the annealing.
Iteracion == pc = "sa" /\ iter' = iter + 1

\* The last draw of the iteration just recorded is the Metropolis draw.
ConSorteo(u) == u.draws # <<>> /\ u.draws[Len(u.draws)] = "metropolis"

\* `current` is a different solution after the step.
CambiaActual ==
    \/ rutas' # rutas
    \/ no_asignados' # no_asignados
    \/ current_cost' # current_cost

C15_CostoActual ==
    EnSA => /\ current_cost.fin
            /\ current_cost = GlobalCostRef(vehiculos, rutas, no_asignados)

(* C15.  A candidate becomes `current` only in an iteration whose move was  *)
(* applied (moved routes feasible) and in which either its global cost is   *)
(* below current_cost or the Metropolis draw was taken and passed; a        *)
(* candidate of infinite cost is never committed; and a committed candidate *)
(* sets current_cost to its global cost, so that current_cost is always     *)
(* finite and is the global cost of `current`.                              *)
C15_Aceptacion ==
    /\ []C15_CostoActual
    /\ [][ Iteracion =>
             /\ CambiaActual => ultima'.accepted
             /\ ultima'.accepted =>
                   /\ ultima'.moved
                   /\ TodasFactibles(vehiculos, ultima'.cand.routes)
                   /\ ultima'.new_cost.fin
                   /\ ultima'.new_cost
                         = GlobalCostRef(vehiculos, ultima'.cand.routes,
                                         ultima'.cand.un)
                   /\ \/ CostLess(ultima'.new_cost, current_cost)
                      \/ ConSorteo(ultima')
                   /\ rutas' = ultima'.cand.routes
                   /\ no_asignados' = ultima'.cand.un
                   /\ current_cost' = ultima'.new_cost ]_vars

\* A candidate of higher cost was committed after the Metropolis draw.
C15_Witness ==
    /\ pc = "sa"
    /\ ultima # <<>>
    /\ ultima.accepted
    /\ ConSorteo(ultima)
    /\ current_cost = ultima.new_cost
    /\ CostLess(best_cost, current_cost)

\* `best` is a different snapshot after the step.
CambiaMejor ==
    \/ best_routes' # best_routes
    \/ best_no_asignados' # best_no_asignados
    \/ best_cost' # best_cost

(* C16.  During the annealing the snapshot `best` (routes, unassigned list, *)
(* best_cost) changes only in an iteration that accepted its candidate and  *)
(* whose new current_cost is strictly below best_cost, and it then becomes  *)
(* the new `current`; an accepted candidate of equal or higher cost, a      *)
(* mutated candidate and a replaced `current` leave `best` as it was; the    *)
(* object `best` is never the object `current` or a candidate.              *)
C16_MejorSoloSiMejora ==
    /\ [](EnSA => ~compartido)
    /\ [][ pc = "sa" =>
             /\ CambiaMejor =>
                   /\ Iteracion
                   /\ ultima'.accepted
                   /\ CostLess(current_cost', best_cost)
                   /\ best_routes' = rutas'
                   /\ best_no_asignados' = no_asignados'
                   /\ best_cost' = current_cost'
             /\ (Iteracion /\ ultima'.accepted
                   /\ ~CostLess(ultima'.new_cost, best_cost)) => ~CambiaMejor ]_vars

\* The second iteration accepted a candidate that costs less than `best`, which
\* the first iteration had left as the greedy solution: `best` is now that
\* candidate.
C16_Witness ==
    /\ pc = "sa"
    /\ iter = 2
    /\ ultima # <<>>
    /\ ultima.accepted
    /\ best_cost = ultima.new_cost
    /\ CostLess(best_cost, greedy_cost)
    /\ best_routes = rutas
    /\ best_routes # greedy_sol.rutas

(* C17.  An iteration whose move is not applied (no-op, or a moved route    *)
(* infeasible) or whose candidate fails the Metropolis test leaves the      *)
(* current routes, the current unassigned list, current_cost and the        *)
(* snapshot `best` as they were, although the candidate copy was changed;   *)
(* only the loop counter and the temperature move.  No step of the solver   *)
(* changes the input lists of vehicles and orders.                          *)
C17_RechazoSinEfecto ==
    [][ /\ (Iteracion /\ ~ultima'.accepted) =>
              /\ UNCHANGED <<rutas, no_asignados, current_cost, min_cost>>
              /\ UNCHANGED <<best_routes, best_no_asignados, best_cost>>
              /\ UNCHANGED <<compartido, greedy_sol, pedidos_ordenados>>
              /\ enfriamientos' = enfriamientos + 1
        /\ UNCHANGED <<vehiculos, pedidos>> ]_vars

\* A candidate that the move changed was dropped by the Metropolis test, and
\* `current` is not that candidate.
C17_Witness ==
    /\ pc = "sa"
    /\ ultima # <<>>
    /\ ultima.moved
    /\ ConSorteo(ultima)
    /\ ~ultima.accepted
    /\ ultima.cand.routes # rutas
    /\ CostLess(current_cost, ultima.new_cost)

-----------------------------------------------------------------------------
(* C18.  Once the greedy solution is built the annealing runs its loop to   *)
(* the end: it is never left before max_iterations iterations were          *)
(* executed, whatever was drawn, applied, discarded or accepted, and the    *)
(* temperature is cooled exactly once in every iteration, so that after k   *)
(* iterations it was cooled k times.                                        *)
C18_TodasLasIteraciones ==
    /\ (EnSA \/ pc = "respondido") => enfriamientos = iter /\ iter <= MaxIter
    /\ pc \in {"done", "respondido"} => iter = MaxIter
    /\ ~(pc = "raised" /\ excepcion = "IndexError")

-----------------------------------------------------------------------------
(* The move insert_unassigned (specification SpecHist).                     *)

\* The list l without its element number i (from 1).
SinElemento(l, i) == SubSeq(l, 1, i - 1) \o SubSeq(l, i + 1, Len(l))

\* How many times move stands in the list of candidates ops.
Veces(ops, move) == Cardinality({ j \in 1..Len(ops) : ops[j] = move })

\* The feasible positions of order o in route r of vehicle v.
PosicionesFactibles(v, r, o) ==
    { pos \in 0..Len(r) : FactibleRef(v, InsertAt(r, pos, o)) }

\* The feasible position of least route cost, the smallest on ties.
PosicionRef(v, r, o) ==
    CHOOSE pos \in PosicionesFactibles(v, r, o) :
        \A q \in PosicionesFactibles(v, r, o) :
            \/ RouteCostRef(v, InsertAt(r, pos, o)) < RouteCostRef(v, InsertAt(r, q, o))
            \/ /\ RouteCostRef(v, InsertAt(r, pos, o)) = RouteCostRef(v, InsertAt(r, q, o))
               /\ pos <= q

(* C19.  insert_unassigned is among the candidates of an iteration exactly  *)
(* when the current unassigned list is not empty, and then twice among the  *)
(* five.  Executed for the drawn unassigned order o and the drawn vehicle   *)
(* v, it inserts o at the feasible position of the route of v of least      *)
(* route cost, the smallest position on ties, and removes o and nothing     *)
(* else from the unassigned list; when no position is feasible the          *)
(* candidate is left as `current` is and the iteration is discarded.        *)
C19_InsertarNoAsignado ==
    [][ Iteracion =>
          /\ Len(ultima'.opciones) = IF no_asignados = <<>> THEN 3 ELSE 5
          /\ Veces(ultima'.opciones, "insert_unassigned")
                = IF no_asignados = <<>> THEN 0 ELSE 2
          /\ Veces(ultima'.opciones, ultima'.move) >= 1
          /\ ultima'.move = "insert_unassigned" =>
                LET idx == ultima'.args[1] + 1
                    o == no_asignados[idx].pedido
                    v == vehiculos[ultima'.args[2]]
                    r == rutas[v.id]
                IN  IF PosicionesFactibles(v, r, o) # {}
                    THEN /\ ultima'.moved
                         /\ ultima'.cand.routes
                               = [rutas EXCEPT ![v.id] =
                                     InsertAt(r, PosicionRef(v, r, o), o)]
                         /\ ultima'.cand.un = SinElemento(no_asignados, idx)
                    ELSE /\ ~ultima'.moved
                         /\ ~ultima'.accepted
                         /\ ultima'.cand.routes = rutas
                         /\ ultima'.cand.un = no_asignados
                         /\ UNCHANGED <<rutas, no_asignados, current_cost>> ]_vars

\* insert_unassigned put an order before the stop of a route that has the same
\* destination: the two positions cost the same and the smaller one was taken.
C19_Witness ==
    /\ pc = "sa"
    /\ ultima # <<>>
    /\ ultima.move = "insert_unassigned"
    /\ ultima.moved
    /\ LET r == ultima.cand.routes[vehiculos[ultima.args[2]].id]
       IN  /\ Len(r) = 2
           /\ r[1].destino = r[2].destino
           /\ \E j \in 1..Len(greedy_sol.no_asignados) :
                 greedy_sol.no_asignados[j].pedido = r[1]

-----------------------------------------------------------------------------
(* Order of the random draws of an iteration (specification SpecHist).      *)

\* Place of a kind of draw in the order move, vehicle, index, Metropolis.
Turno(kind) ==
    CASE kind = "move" -> 1
      [] kind = "vehicle" -> 2
      [] kind = "index" -> 3
      [] kind = "metropolis" -> 4

\* The draws d follow the order move, vehicle(s), index(es), Metropolis.
EnOrden(d) ==
    /\ d # <<>>
    /\ d[1] = "move"
    /\ \A i, j \in 1..Len(d) : i < j => Turno(d[i]) <= Turno(d[j])
    /\ Cardinality({ i \in 1..Len(d) : d[i] = "move" }) = 1
    /\ Cardinality({ i \in 1..Len(d) : d[i] = "metropolis" }) <= 1

\* The Metropolis draw is the last one and is taken exactly when the move was
\* applied and delta >= 0.
SorteoFinal(u, cur_cost) ==
    /\ \A i \in 1..(Len(u.draws) - 1) : u.draws[i] # "metropolis"
    /\ ConSorteo(u) <=> (u.moved /\ ~CostLess(u.new_cost, cur_cost))

(* C20 as claimed.  In every iteration, whatever the move, the draws are    *)
(* taken in the order move kind, vehicle choice(s), index selection(s),     *)
(* Metropolis; the Metropolis draw is taken only if the move was applied    *)
(* and delta >= 0.                                                          *)
C20_OrdenSorteos ==
    [][ Iteracion =>
          /\ EnOrden(ultima'.draws)
          /\ SorteoFinal(ultima', current_cost) ]_vars

(* C20 as amended.  The move kind is drawn first and the Metropolis draw,   *)
(* taken exactly when the move was applied and delta >= 0, last.  Between   *)
(* them swap_inter, move_inter and swap_intra draw their vehicle(s) and     *)
(* then their index(es); insert_unassigned draws the vehicle v1, then the   *)
(* index of the unassigned order, then the target vehicle.                  *)
C20_OrdenPorMovimiento ==
    [][ Iteracion =>
          /\ SorteoFinal(ultima', current_cost)
          /\ LET d == ultima'.draws
                 sin == IF ConSorteo(ultima') THEN SubSeq(d, 1, Len(d) - 1) ELSE d
             IN  IF ultima'.move = "insert_unassigned"
                 THEN sin = <<"move", "vehicle", "index", "vehicle">>
                 ELSE EnOrden(d) ]_vars

\* insert_unassigned was applied and accepted with delta < 0: its draws were the
\* move, v1, the index of the order and the target vehicle.
C20_Witness ==
    /\ pc = "sa"
    /\ ultima # <<>>
    /\ ultima.move = "insert_unassigned"
    /\ ultima.moved /\ ultima.accepted
    /\ ultima.draws = <<"move", "vehicle", "index", "vehicle">>

-----------------------------------------------------------------------------
(* C21.  No step of the annealing adds an entry to the unassigned list of   *)
(* `current` or of `best`: every entry (order and reason) of the list after *)
(* an iteration was in it before.  Hence the unassigned entries of the      *)
(* returned solution are entries of the greedy solution, with the reasons   *)
(* greedy wrote, and the returned solution assigns at least as many orders  *)
(* as greedy.                                                               *)
C21_NoDesasigna ==
    /\ [](EnSA =>
            /\ Rango(no_asignados) \subseteq Rango(greedy_sol.no_asignados)
            /\ Rango(best_no_asignados) \subseteq Rango(greedy_sol.no_asignados)
            /\ Len(pedidos) - Len(best_no_asignados)
                  >= Len(pedidos) - Len(greedy_sol.no_asignados))
    /\ [][ pc = "sa" =>
             /\ Rango(no_asignados') \subseteq Rango(no_asignados)
             /\ Len(no_asignados') <= Len(no_asignados) ]_vars

\* A returned solution that assigns an order greedy had left unassigned and
\* still leaves another one unassigned, with greedy's reason.
C21_Witness ==
    /\ pc = "done"
    /\ best_no_asignados # <<>>
    /\ Len(best_no_asignados) < Len(greedy_sol.no_asignados)
    /\ \A j \in 1..Len(best_no_asignados) :
          best_no_asignados[j] \in Rango(greedy_sol.no_asignados)

-----------------------------------------------------------------------------
(* Windows that open late in the day (specification SpecJornada).           *)

\* Minute of the day after which a service cannot start and end within the
\* working day: 08:00 + 8 h - 10 min = 15:50.
UltimoInicio ==
    ParseHM(HORA_INICIO) + 60 * MAX_JORNADA_HORAS - TIEMPO_SERVICIO_MINUTOS

\* The window of p opens after UltimoInicio.
AbreTarde(p) == ParseHM(p.ventana_inicio) > UltimoInicio

EnNoAsignados(un, p) == \E j \in 1..Len(un) : un[j].pedido = p

(* C22.  An order whose window opens later than 15:50 makes every route     *)
(* that holds it infeasible, because the wait for the window counts in the *)
(* 8 hours: it is in no route of the greedy, of `current`, of `best` or of  *)
(* the returned solution, and it is in the unassigned list once greedy has  *)
(* looked at it.  An order whose window opens at 15:50 or earlier is not    *)
(* rejected for the length of the day when it is reached by 15:50.          *)
C22_JornadaExcluye ==
    \A j \in 1..Len(pedidos) :
        LET p == pedidos[j]
        IN  /\ (AbreTarde(p) /\ pc \in {"greedy", "sa", "done", "respondido"}) =>
                  /\ ~EnAlgunaRuta(vehiculos, rutas, p)
                  /\ \A i \in 1..Len(vehiculos) :
                        \A pos \in 0..Len(rutas[vehiculos[i].id]) :
                            ~calculate_route_metrics(vehiculos[i],
                                InsertAt(rutas[vehiculos[i].id], pos, p)).is_feasible
            /\ (AbreTarde(p) /\ (GreedyTerminado \/ EnSA \/ pc = "respondido")) =>
                  EnNoAsignados(no_asignados, p)
            /\ (AbreTarde(p) /\ (EnSA \/ pc = "respondido")) =>
                  /\ ~EnAlgunaRuta(vehiculos, best_routes, p)
                  /\ EnNoAsignados(best_no_asignados, p)
            /\ ~AbreTarde(p) =>
                  \A i \in 1..Len(vehiculos) :
                      LET m == calculate_route_metrics(vehiculos[i], <<p>>)
                      IN  (~m.is_feasible
                             /\ m.rejection_reason[1] = "Excede jornada maxima")
                          => LlegadaRef(vehiculos[i], <<p>>, 1) > UltimoInicio

\* A returned solution with an order whose window opens at 15:50 in a route and
\* an order whose window opens at 15:51 unassigned.
C22_Witness ==
    /\ pc = "done"
    /\ \E j \in 1..Len(pedidos) :
          /\ ParseHM(pedidos[j].ventana_inicio) = UltimoInicio
          /\ EnAlgunaRuta(vehiculos, best_routes, pedidos[j])
    /\ \E j \in 1..Len(pedidos) :
          /\ ParseHM(pedidos[j].ventana_inicio) = UltimoInicio + 1
          /\ EnNoAsignados(best_no_asignados, pedidos[j])

-----------------------------------------------------------------------------
(* Cost of an applied insert_unassigned (specification SpecHist).           *)

\* The largest cost of a feasible route, times CostUnit: 8 h of travel at
\* VELOCIDAD_PROMEDIO_KMH, 8 h of waiting and a full load.
CotaRuta ==
    W_DIST * CostUnit * VELOCIDAD_PROMEDIO_KMH * MAX_JORNADA_HORAS
    + W_WAIT_NUM * CapUnit * 60 * MAX_JORNADA_HORAS
    + W_CAP * CostUnit

\* The smallest penalty of an unassigned order (priority 1), times CostUnit.
PenaMinima == W_UNASSIGNED * CostUnit

\* Every route of rs costs at most CotaRuta.
RutasAcotadas(vs, rs) ==
    \A i \in 1..Len(vs) :
        LET c == calculate_route_cost(vs[i], rs[vs[i].id])
        IN  c.fin /\ c.v <= CotaRuta

C23_Cota ==
    /\ CotaRuta < PenaMinima
    /\ \A j \in 1..Len(pedidos) : pedidos[j].prioridad >= 1
    /\ EnSA => /\ RutasAcotadas(vehiculos, rutas)
               /\ RutasAcotadas(vehiculos, best_routes)

(* C23.  The cost of a feasible route is at most W_DIST*240 + W_WAIT*8 +     *)
(* W_CAP, which is below W_UNASSIGNED*1^2 = 600; so every applied           *)
(* insert_unassigned has a global cost strictly below current_cost, the     *)
(* Metropolis draw is not taken, and the candidate is accepted.             *)
C23_InsercionSiempreAceptada ==
    /\ []C23_Cota
    /\ [][ (Iteracion /\ ultima'.move = "insert_unassigned" /\ ultima'.moved) =>
             /\ RutasAcotadas(vehiculos, ultima'.cand.routes)
             /\ CostLess(ultima'.new_cost, current_cost)
             /\ ~ConSorteo(ultima')
             /\ ultima'.accepted
             /\ rutas' = ultima'.cand.routes
             /\ no_asignados' = ultima'.cand.un
             /\ current_cost' = ultima'.new_cost ]_vars

\* insert_unassigned was applied after a candidate of higher cost had been
\* accepted: `current` is the candidate and costs less than greedy's solution.
C23_Witness ==
    /\ pc = "sa"
    /\ iter = 2
    /\ ultima # <<>>
    /\ ultima.move = "insert_unassigned"
    /\ ultima.moved
    /\ rutas = ultima.cand.routes
    /\ Len(no_asignados) < Len(greedy_sol.no_asignados)
    /\ CostLess(current_cost, greedy_cost)

====
